---- MODULE Spec2Model ----
(***************************************************************************)
(* Verification model of the routing-table service (weekmo/routing-table-   *)
(* api): the dual binary radix tree of service/lib/radix_tree.py, the LRU   *)
(* cached lookup, the metric-update handlers and the worker processes of   *)
(* service/main.py.                                                        *)
(*                                                                         *)
(* Address widths, the metric range and the cache capacity are scaled down *)
(* (32/128 bits -> V4Bits/V6Bits, 32768 -> MaxMetric, 10000 -> CacheSize).  *)
(***************************************************************************)
EXTENDS Integers, Sequences, FiniteSets, TLC

\* ------------------------------------------------------------------ bounds
V4Bits == 2
V6Bits == 1
MaxMetric == 2
MaxRoutes == 2
CacheSize == 2
BatchLen == 1
MaxUpdates == 2
WriterLen == 2
ProcNum == 2

\* ------------------------------------------------------- text of the inputs
\* A prefix text is modelled by what ipaddress.ip_network reads from it: the
\* family, the address, the prefix length, and its spelling.  "canon" is the
\* spelling network.with_prefixlen prints; "alt" is another spelling of the
\* same network (upper-case or uncompressed IPv6 such as "2001:DB8::/32";
\* one alternative spelling per IPv6 network is enumerated).  A text whose
\* address has bits set below the prefix length is rejected by ip_network.
Versions == {4, 6}
Forms(version) == IF version = 6 THEN {"canon", "alt"} ELSE {"canon"}
\* next-hop texts handed to the core: one that parses as an IP address and
\* one that does not
NextHops == {"10.0.0.1", "bogus"}

\* ipaddress.ip_network(nh) / ip_address(nh) accepts the text
ip_address_ok(next_hop) == next_hop \in {"10.0.0.1", "10.0.0.2"}

max_bits(version) == IF version = 4 THEN V4Bits ELSE V6Bits

Pow2(n) == 2 ^ n

PrefixTexts ==
  UNION { [v : {ver}, addr : 0 .. Pow2(max_bits(ver)) - 1,
           len : 0 .. max_bits(ver), form : Forms(ver)] : ver \in Versions }

Addresses ==
  UNION { [v : {ver}, addr : 0 .. Pow2(max_bits(ver)) - 1] : ver \in Versions }

Metrics == 1 .. MaxMetric

\* ipaddress.ip_network(text) succeeds iff no host bit is set
HostBits(t) == t.addr % Pow2(max_bits(t.v) - t.len)

ip_network_ok(t) == HostBits(t) = 0

ip_network(t) == [version |-> t.v, network_address |-> t.addr, prefixlen |-> t.len]

with_prefixlen(network) ==
  [v |-> network.version, addr |-> network.network_address,
   len |-> network.prefixlen, form |-> "canon"]

\* mutant: a next hop that does not parse gets the number of one that does
nhn_of_never_zero(next_hop) ==
  CASE next_hop = "10.0.0.2" -> 2
    [] OTHER -> 1

\* int(ipaddress.ip_address(next_hop)), or 0 when it does not parse
nhn_of(next_hop) ==
  CASE next_hop = "10.0.0.1" -> 1
    [] next_hop = "10.0.0.2" -> 2
    [] OTHER -> 0

\* the threads that run request handlers
Threads == {"t1", "t2"}

\* ------------------------------------------------------------------- state
VARIABLES ipv4_root, ipv6_root, route_count,   \* the RadixTree object
          ret,     \* what the last core call returned to its caller
          old,     \* history: the RadixTree as it was when that call was made
          inserts, \* history: the number of insert calls that have returned
          ins,     \* per thread: the locals of the insert call it is running
          wk,      \* per thread: the locals of the update_metric or lookup
                   \* call it is running with no lock held
          df,      \* main.py: the table mirror (one row per route)
          cache,   \* main.py: the lru_cache of cached_radix_lookup, LRU first
          recent,  \* history: the keys used last since the cache was cleared,
                   \* each once, in the order of their last use; one more
                   \* key than the cache can hold is remembered
          df_lock, \* main.py: the thread that owns df_lock, or "free"
          th,      \* per thread: the handler it runs, its locals, its position
          updated, \* history: a successful update has returned (from any
                   \* worker process)
          running, \* the worker process whose module state df, radix_tree,
                   \* the cache and df_lock the variables above hold
          parked,  \* the module state of each other worker process
          updater  \* history: the worker process that served the last
                   \* successful update (0: none yet)

tree == <<ipv4_root, ipv6_root, route_count>>

service == <<df, cache, recent, df_lock, th, updated>>

caller == <<ret, old, inserts, ins, wk>>

processes == <<running, parked, updater>>

vars == <<ipv4_root, ipv6_root, route_count, ret, old, inserts, ins, wk, df,
          cache, recent, df_lock, th, updated, running, parked, updater>>

Snapshot == [ipv4_root |-> ipv4_root, ipv6_root |-> ipv6_root,
             route_count |-> route_count]

\* The locals of a thread that calls RadixTree.insert with no lock held:
\*   batch   - the prefixes it still has to insert (the first is in progress),
\*   current - the path of the node its walk has reached,
\*   own     - empty while that node hangs in the tree; once the link above
\*             it has been overwritten, the subtree it is walking, which only
\*             this thread can still reach,
\*   count   - the value of route_count it read.
InsIdle ==
  [pc |-> "idle", batch |-> << >>, current |-> << >>, own |-> << >>, count |-> 0]

\* The locals of a thread that calls RadixTree.update_metric or
\* RadixTree.lookup with no lock held:
\*   call            - the call in progress and its arguments,
\*   todo            - update_metric: the routes still to be assigned,
\*   updated_count   - update_metric: the assignments made,
\*   current         - lookup: the path of the node the walk has reached,
\*   matching_routes - lookup: the routes collected (references),
\*   seen            - the routes of the returned list as the caller read them,
\*   base            - history: the routes that matched when lookup was entered,
\*   log             - history: the update_metric calls the thread has made,
\*                     with what each returned (-1 while it runs).
WkIdle ==
  [pc |-> "idle", call |-> [op |-> "none"], todo |-> << >>, updated_count |-> 0,
   current |-> << >>, matching_routes |-> << >>, seen |-> << >>, base |-> << >>,
   log |-> << >>]

\* A tree is a function from the paths of its existing nodes (sequences of
\* bits from the root) to the list of routes attached at the node; the child
\* of node p on bit b exists iff Append(p, b) is in the domain.
RadixNode == << >>

RouteInfo(prefix, next_hop, metric, prefix_len, version) ==
  [prefix |-> prefix, next_hop |-> next_hop, metric |-> metric,
   prefix_len |-> prefix_len, version |-> version, nhn |-> nhn_of(next_hop)]

\* mutant: the loop takes the bits from the least significant end
PathBits_low_bits(addr_int, prefix_len, mbits) ==
  [i \in 1 .. prefix_len |-> (addr_int \div Pow2(i - 1)) % 2]

\* bit = (addr_int >> bit_pos) & 1 for bit_pos = max_bits-1 .. max_bits-prefix_len
PathBits(addr_int, prefix_len, mbits) ==
  [i \in 1 .. prefix_len |-> (addr_int \div Pow2(mbits - i)) % 2]

Range(f) == { f[i] : i \in DOMAIN f }

IsPrefixOf(p, q) == Len(p) <= Len(q) /\ SubSeq(q, 1, Len(p)) = p

\* mutant: one tree serves both families
root_of_one_tree(version) == ipv4_root

root_of(version) == IF version = 4 THEN ipv4_root ELSE ipv6_root

\* mutant: a route whose prefix and next hop are at the node already is not
\* appended again
InsertTree_dedup(root, network, route) ==
  LET path == PathBits(network.network_address, network.prefixlen,
                       max_bits(network.version))
      newdom == DOMAIN root \cup { SubSeq(path, 1, k) : k \in 0 .. Len(path) }
      there == /\ path \in DOMAIN root
               /\ \E i \in DOMAIN root[path] :
                     /\ root[path][i].prefix = route.prefix
                     /\ root[path][i].next_hop = route.next_hop
  IN  [p \in newdom |->
         IF p = path /\ ~there
           THEN (IF p \in DOMAIN root THEN root[p] ELSE RadixNode) \o <<route>>
           ELSE IF p \in DOMAIN root THEN root[p] ELSE RadixNode]

\* mutant: the route replaces the list of its node instead of joining it
InsertTree_replaces(root, network, route) ==
  LET path == PathBits(network.network_address, network.prefixlen,
                       max_bits(network.version))
      newdom == DOMAIN root \cup { SubSeq(path, 1, k) : k \in 0 .. Len(path) }
  IN  [p \in newdom |->
         IF p = path
           THEN <<route>>
           ELSE IF p \in DOMAIN root THEN root[p] ELSE RadixNode]

\* RadixTree.insert: create the missing nodes of the path, append the route
InsertTree(root, network, route) ==
  LET path == PathBits(network.network_address, network.prefixlen,
                       max_bits(network.version))
      newdom == DOMAIN root \cup { SubSeq(path, 1, k) : k \in 0 .. Len(path) }
  IN  [p \in newdom |->
         IF p = path
           THEN (IF p \in DOMAIN root THEN root[p] ELSE RadixNode) \o <<route>>
           ELSE IF p \in DOMAIN root THEN root[p] ELSE RadixNode]

\* the interpreter that imported the module and no other (PROC_NUM = 1, and
\* every use of the RadixTree class on its own)
one_process == running = 1 /\ parked = << >> /\ updater = 0

\* The core API is driven by one caller: it makes a call when it holds no
\* pending result (Idle), and drops the result before the next call (Return).
Idle == ret.op = "idle"

Return ==
  /\ ~Idle
  /\ ret' = [op |-> "idle"]
  /\ old' = Snapshot
  /\ UNCHANGED <<tree, service, inserts, ins, wk, processes>>

\* mutant: the route is counted before the prefix is parsed
insert_counts_first(prefix, next_hop, metric) ==
  /\ Idle
  /\ UNCHANGED <<service, ins, wk, processes>>
  /\ old' = Snapshot
  /\ route_count < MaxRoutes
  /\ route_count' = route_count + 1
  /\ IF ~ip_network_ok(prefix)
       THEN /\ ret' = [op |-> "insert", error |-> "ValueError", prefix |-> prefix,
                     next_hop |-> next_hop, metric |-> metric]
            /\ UNCHANGED <<ipv4_root, ipv6_root, inserts>>
       ELSE LET network == ip_network(prefix)
                route == RouteInfo(prefix, next_hop, metric,
                                   network.prefixlen, network.version)
            IN  /\ IF network.version = 4
                     THEN /\ ipv4_root' = InsertTree(ipv4_root, network, route)
                          /\ UNCHANGED ipv6_root
                     ELSE /\ ipv6_root' = InsertTree(ipv6_root, network, route)
                          /\ UNCHANGED ipv4_root
                /\ inserts' = inserts + 1
                /\ ret' = [op |-> "insert", error |-> "none", prefix |-> prefix,
                           next_hop |-> next_hop, metric |-> metric]

insert(prefix, next_hop, metric) ==
  /\ Idle
  /\ UNCHANGED <<service, ins, wk, processes>>
  /\ old' = Snapshot
  /\ route_count < MaxRoutes
  /\ IF ~ip_network_ok(prefix)
       THEN /\ ret' = [op |-> "insert", error |-> "ValueError", prefix |-> prefix,
                     next_hop |-> next_hop, metric |-> metric]
            /\ UNCHANGED <<tree, inserts>>
       ELSE LET network == ip_network(prefix)
                route == RouteInfo(prefix, next_hop, metric,
                                   network.prefixlen, network.version)
            IN  /\ IF network.version = 4
                     THEN /\ ipv4_root' = InsertTree(ipv4_root, network, route)
                          /\ UNCHANGED ipv6_root
                     ELSE /\ ipv6_root' = InsertTree(ipv6_root, network, route)
                          /\ UNCHANGED ipv4_root
                /\ route_count' = route_count + 1
                /\ inserts' = inserts + 1
                /\ ret' = [op |-> "insert", error |-> "none", prefix |-> prefix,
                           next_hop |-> next_hop, metric |-> metric]

\* RadixTree.lookup: the routes of the root, then of every node met while
\* descending on the address bits, until a child is absent
RECURSIVE lookup_walk(_, _, _, _)
lookup_walk(root, bits, k, current) ==
  IF k = Len(bits)
    THEN << >>
    ELSE LET child == Append(current, bits[k + 1])
         IN  IF child \notin DOMAIN root
               THEN << >>
               ELSE root[child] \o lookup_walk(root, bits, k + 1, child)

\* mutant: the walk forgets the routes attached at the root
lookup_routes_skips_root(root, addr_int, mbits) ==
  lookup_walk(root, PathBits(addr_int, mbits, mbits), 0, << >>)

\* mutant: the routes attached at the root are collected after the walk
lookup_routes_root_last(root, addr_int, mbits) ==
  lookup_walk(root, PathBits(addr_int, mbits, mbits), 0, << >>) \o root[<< >>]

lookup_routes(root, addr_int, mbits) ==
  root[<< >>] \o lookup_walk(root, PathBits(addr_int, mbits, mbits), 0, << >>)

lookup(ip_address) ==
  /\ Idle
  /\ UNCHANGED <<service, inserts, ins, wk, processes>>
  /\ old' = Snapshot
  /\ ret' = [op |-> "lookup", ip_address |-> ip_address,
             result |-> lookup_routes(root_of(ip_address.v), ip_address.addr,
                                      max_bits(ip_address.v))]
  /\ UNCHANGED tree

\* A route object is named by the node it hangs on and its index in the list
RouteRef(node, i) == [node |-> node, i |-> i]

RECURSIVE RefsFrom(_, _, _, _)
RefsFrom(root, node, i, next_hop) ==
  IF i > Len(root[node])
    THEN << >>
    ELSE (IF root[node][i].next_hop = next_hop THEN <<RouteRef(node, i)>> ELSE << >>)
         \o RefsFrom(root, node, i + 1, next_hop)

\* mutant: the recursion descends into the left child only
RECURSIVE update_subtree_left_only(_, _, _)
update_subtree_left_only(root, node, next_hop) ==
  IF node \notin DOMAIN root
    THEN << >>
    ELSE RefsFrom(root, node, 1, next_hop)
         \o update_subtree_left_only(root, Append(node, 0), next_hop)

\* RadixTree._update_subtree: the routes it assigns, in the order it does
RECURSIVE update_subtree(_, _, _)
update_subtree(root, node, next_hop) ==
  IF node \notin DOMAIN root
    THEN << >>
    ELSE RefsFrom(root, node, 1, next_hop)
         \o update_subtree(root, Append(node, 0), next_hop)
         \o update_subtree(root, Append(node, 1), next_hop)

\* mutant: exact mode compares the next hop only, not the prefix text
ExactRefsFrom_any_text(root, node, i, next_hop, text) ==
  RefsFrom(root, node, i, next_hop)

RECURSIVE ExactRefsFrom(_, _, _, _, _)
ExactRefsFrom(root, node, i, next_hop, text) ==
  IF i > Len(root[node])
    THEN << >>
    ELSE (IF root[node][i].next_hop = next_hop /\ root[node][i].prefix = text
            THEN <<RouteRef(node, i)>> ELSE << >>)
         \o ExactRefsFrom(root, node, i + 1, next_hop, text)

\* mutant: exact mode walks the subtree as orlonger does
update_targets_exact_descends(root, network, next_hop, match_type) ==
  LET path == PathBits(network.network_address, network.prefixlen,
                       max_bits(network.version))
  IN  IF path \notin DOMAIN root THEN << >> ELSE update_subtree(root, path, next_hop)

\* RadixTree.update_metric: the routes whose metric it assigns, in order
update_targets(root, network, next_hop, match_type) ==
  LET path == PathBits(network.network_address, network.prefixlen,
                       max_bits(network.version))
  IN  IF path \notin DOMAIN root
        THEN << >>
        ELSE IF match_type = "exact"
               THEN ExactRefsFrom(root, path, 1, next_hop, with_prefixlen(network))
               ELSE update_subtree(root, path, next_hop)

\* ---- the nodes the walks are at, in the order they get there
\* RadixTree.lookup: "current" at the start and after each iteration of the
\* loop over the address bits that did not break
RECURSIVE lookup_descent(_, _, _, _)
lookup_descent(root, bits, k, current) ==
  IF k = Len(bits)
    THEN << >>
    ELSE LET child == Append(current, bits[k + 1])
         IN  IF child \notin DOMAIN root
               THEN << >>
               ELSE <<child>> \o lookup_descent(root, bits, k + 1, child)

lookup_nodes(root, addr_int, mbits) ==
  << << >> >> \o lookup_descent(root, PathBits(addr_int, mbits, mbits), 0, << >>)

\* RadixTree.update_metric, "Navigate to exact prefix": the iterations of the
\* loop that are run (the one that finds no child and returns 0 included)
RECURSIVE navigate_steps(_, _, _, _)
navigate_steps(root, bits, k, current) ==
  IF k = Len(bits)
    THEN 0
    ELSE LET child == Append(current, bits[k + 1])
         IN  IF child \notin DOMAIN root
               THEN 1
               ELSE 1 + navigate_steps(root, bits, k + 1, child)

\* mutant: the recursion descends into the left child twice
RECURSIVE update_subtree_nodes_left_twice(_, _)
update_subtree_nodes_left_twice(root, node) ==
  IF node \notin DOMAIN root
    THEN << >>
    ELSE <<node>> \o update_subtree_nodes_left_twice(root, Append(node, 0))
                  \o update_subtree_nodes_left_twice(root, Append(node, 0))
                  \o update_subtree_nodes_left_twice(root, Append(node, 1))

\* RadixTree._update_subtree: the nodes whose routes a call goes through
\* (a call on None returns at once)
RECURSIVE update_subtree_nodes(_, _)
update_subtree_nodes(root, node) ==
  IF node \notin DOMAIN root
    THEN << >>
    ELSE <<node>> \o update_subtree_nodes(root, Append(node, 0))
                  \o update_subtree_nodes(root, Append(node, 1))

\* mutant: the assignment adds the argument to the metric the route has
SetMetric_adds(root, ref, metric) ==
  [root EXCEPT ![ref.node][ref.i].metric = @ + metric]

\* mutant: the assignment writes the default metric instead of the argument
SetMetric_default(root, ref, metric) ==
  [root EXCEPT ![ref.node][ref.i].metric = MaxMetric]

SetMetric(root, ref, metric) ==
  [root EXCEPT ![ref.node][ref.i].metric = metric]

RECURSIVE ApplyMetric(_, _, _)
ApplyMetric(root, refs, metric) ==
  IF refs = << >>
    THEN root
    ELSE ApplyMetric(SetMetric(root, Head(refs), metric), Tail(refs), metric)

MatchTypes == {"exact", "orlonger"}

update_metric(prefix, next_hop, metric, match_type) ==
  /\ Idle
  /\ UNCHANGED <<service, inserts, ins, wk, processes>>
  /\ old' = Snapshot
  /\ IF ~ip_network_ok(prefix)
       THEN /\ ret' = [op |-> "update_metric", error |-> "ValueError"]
            /\ UNCHANGED tree
       ELSE LET network == ip_network(prefix)
                refs == update_targets(root_of(network.version), network,
                                       next_hop, match_type)
            IN  /\ IF network.version = 4
                     THEN /\ ipv4_root' = ApplyMetric(ipv4_root, refs, metric)
                          /\ UNCHANGED ipv6_root
                     ELSE /\ ipv6_root' = ApplyMetric(ipv6_root, refs, metric)
                          /\ UNCHANGED ipv4_root
                /\ UNCHANGED route_count
                /\ ret' = [op |-> "update_metric", error |-> "none",
                           prefix |-> prefix, next_hop |-> next_hop,
                           metric |-> metric, match_type |-> match_type,
                           count |-> Len(refs)]

\* RadixTree._collect_routes / get_all_routes: every route, node before its
\* left subtree before its right subtree, IPv4 tree first
RECURSIVE collect_routes(_, _)
collect_routes(root, node) ==
  IF node \notin DOMAIN root
    THEN << >>
    ELSE root[node] \o collect_routes(root, Append(node, 0))
                    \o collect_routes(root, Append(node, 1))

get_all_routes == collect_routes(ipv4_root, << >>) \o collect_routes(ipv6_root, << >>)

\* sorted(result, key=lambda r: (-r.prefix_len, r.metric, r.nhn)): tuples
\* compare lexicographically, and the sort is stable
\* mutant: the key leaves the metric out
key_less_without_metric(a, b) ==
  \/ a.prefix_len > b.prefix_len
  \/ a.prefix_len = b.prefix_len /\ a.nhn < b.nhn

key_less(a, b) ==
  \/ a.prefix_len > b.prefix_len
  \/ a.prefix_len = b.prefix_len /\ a.metric < b.metric
  \/ a.prefix_len = b.prefix_len /\ a.metric = b.metric /\ a.nhn < b.nhn

\* mutant: an element is put before the elements of equal key
RECURSIVE insert_sorted_unstable(_, _)
insert_sorted_unstable(r, sorted) ==
  IF sorted = << >>
    THEN <<r>>
    ELSE IF ~key_less(Head(sorted), r)
           THEN <<r>> \o sorted
           ELSE <<Head(sorted)>> \o insert_sorted_unstable(r, Tail(sorted))

RECURSIVE insert_sorted(_, _)
insert_sorted(r, sorted) ==
  IF sorted = << >>
    THEN <<r>>
    ELSE IF key_less(r, Head(sorted))
           THEN <<r>> \o sorted
           ELSE <<Head(sorted)>> \o insert_sorted(r, Tail(sorted))

RECURSIVE sorted_routes(_)
sorted_routes(result) ==
  IF result = << >>
    THEN << >>
    ELSE LET n == Len(result)
         IN  insert_sorted(result[n], sorted_routes(SubSeq(result, 1, n - 1)))

best_route(result) == Head(sorted_routes(result))

\* ================================================== service (service/main.py)
\* lib/data.py: mxmetric = 0x8000, the metric every loaded route starts with
\* (config.py: MAX_METRIC defaults to the same 32768)
mxmetric == MaxMetric

\* mutant: the range check admits one metric above the range
max_metric_wider == MaxMetric + 1

max_metric == MaxMetric

\* A routes file is a list of "prefix;next_hop" lines.
FileRow(prefix, next_hop) == [prefix |-> prefix, next_hop |-> next_hop]

V4Text(addr, len) == [v |-> 4, addr |-> addr, len |-> len, form |-> "canon"]

V6Text(addr, len, form) == [v |-> 6, addr |-> addr, len |-> len, form |-> form]

\* nested prefixes behind one next hop
FileNested ==
  <<FileRow(V4Text(0, 0), "10.0.0.1"), FileRow(V4Text(0, 1), "10.0.0.1")>>

\* one prefix behind two next hops, no default route
FileTwoHops ==
  <<FileRow(V4Text(0, 1), "10.0.0.2"), FileRow(V4Text(0, 1), "10.0.0.1")>>

\* an IPv6 line written in a non-canonical spelling before an IPv4 line
FileMixed ==
  <<FileRow(V6Text(0, 0, "alt"), "10.0.0.2"),
    FileRow(V4Text(Pow2(V4Bits - 1), 1), "10.0.0.1")>>

FileV6 ==
  <<FileRow(V6Text(0, 1, "canon"), "10.0.0.1"),
    FileRow(V6Text(0, 0, "canon"), "10.0.0.2")>>

\* the same line twice
FileDuplicate ==
  <<FileRow(V4Text(0, 0), "10.0.0.1"), FileRow(V4Text(0, 0), "10.0.0.1")>>

RouteFiles == {FileNested, FileTwoHops, FileMixed, FileV6, FileDuplicate}

\* lib/data.py get_df_polars: v from the presence of ":", prefixlen from the
\* text after "/", metric = mxmetric
get_df_polars(file) ==
  [i \in DOMAIN file |->
     [prefix |-> file[i].prefix, next_hop |-> file[i].next_hop,
      v |-> file[i].prefix.v, prefixlen |-> file[i].prefix.len,
      metric |-> mxmetric]]

\* lib/data.py prep_df: the IPv4 rows, then the IPv6 rows
prep_df(frame) ==
  LET IsV4(row) == row.v = 4
      IsV6(row) == row.v = 6
  IN  SelectSeq(frame, IsV4) \o SelectSeq(frame, IsV6)

EmptyTree ==
  [ipv4_root |-> (<< >> :> RadixNode), ipv6_root |-> (<< >> :> RadixNode),
   route_count |-> 0]

\* RadixTree.insert on a tree value (the prefix is known to parse)
tree_insert(T, prefix, next_hop, metric) ==
  LET network == ip_network(prefix)
      route == RouteInfo(prefix, next_hop, metric, network.prefixlen,
                         network.version)
  IN  [ipv4_root |-> IF network.version = 4
                       THEN InsertTree(T.ipv4_root, network, route)
                       ELSE T.ipv4_root,
       ipv6_root |-> IF network.version = 6
                       THEN InsertTree(T.ipv6_root, network, route)
                       ELSE T.ipv6_root,
       route_count |-> T.route_count + 1]

\* lib/data.py build_radix_tree: insert every row, in row order
RECURSIVE build_radix_tree(_)
build_radix_tree(frame) ==
  IF frame = << >>
    THEN EmptyTree
    ELSE LET n == Len(frame)
         IN  tree_insert(build_radix_tree(SubSeq(frame, 1, n - 1)),
                         frame[n].prefix, frame[n].next_hop, frame[n].metric)

\* network.subnet_of(prefix_ip) for networks of one family
\* mutant: only the proper subnets count, not the prefix itself
subnet_of_proper(net, prefix_ip) ==
  /\ net.prefixlen > prefix_ip.prefixlen
  /\ net.network_address \div Pow2(max_bits(net.version) - prefix_ip.prefixlen)
       = prefix_ip.network_address
           \div Pow2(max_bits(net.version) - prefix_ip.prefixlen)

subnet_of(net, prefix_ip) ==
  /\ net.prefixlen >= prefix_ip.prefixlen
  /\ net.network_address \div Pow2(max_bits(net.version) - prefix_ip.prefixlen)
       = prefix_ip.network_address
           \div Pow2(max_bits(net.version) - prefix_ip.prefixlen)

\* lpm_update, mirror part: the rows an update selects (next_hop_df)
is_subnet_of_prefix(route_prefix, prefix_ip) ==
  /\ ip_network_ok(route_prefix)
  /\ ip_network(route_prefix).version = prefix_ip.version
  /\ ip_network(route_prefix).prefixlen >= prefix_ip.prefixlen
  /\ subnet_of(ip_network(route_prefix), prefix_ip)

matching_prefixes(frame, prefix_ip, nh) ==
  { frame[i].prefix : i \in { j \in DOMAIN frame :
        /\ frame[j].next_hop = nh
        /\ frame[j].v = prefix_ip.version
        /\ is_subnet_of_prefix(frame[j].prefix, prefix_ip) } }

mask(row, prefix_ip, nh, matchd, frame) ==
  IF matchd = "exact"
    THEN row.next_hop = nh /\ row.prefix = with_prefixlen(prefix_ip)
    ELSE row.next_hop = nh /\ row.prefix \in matching_prefixes(frame, prefix_ip, nh)

next_hop_df_len(frame, prefix_ip, nh, matchd) ==
  Cardinality({ i \in DOMAIN frame :
     /\ mask(frame[i], prefix_ip, nh, matchd, frame)
     /\ matchd # "exact" => frame[i].v = prefix_ip.version })

\* mutant: the new table holds the matching rows only
updated_df_matching_only(frame, prefix_ip, nh, metric, matchd) ==
  LET matches(row) == mask(row, prefix_ip, nh, matchd, frame)
  IN  [i \in DOMAIN SelectSeq(frame, matches) |->
         [SelectSeq(frame, matches)[i] EXCEPT !.metric = metric]]

updated_df(frame, prefix_ip, nh, metric, matchd) ==
  [i \in DOMAIN frame |->
     IF mask(frame[i], prefix_ip, nh, matchd, frame)
       THEN [frame[i] EXCEPT !.metric = metric]
       ELSE frame[i]]

\* RadixTree.lookup as the list of route objects it returns (references)
NodeRefs(root, node) == [i \in 1 .. Len(root[node]) |-> RouteRef(node, i)]

RECURSIVE lookup_walk_refs(_, _, _, _)
lookup_walk_refs(root, bits, k, current) ==
  IF k = Len(bits)
    THEN << >>
    ELSE LET child == Append(current, bits[k + 1])
         IN  IF child \notin DOMAIN root
               THEN << >>
               ELSE NodeRefs(root, child)
                    \o lookup_walk_refs(root, bits, k + 1, child)

\* mutant: the routes attached at the root are not collected
lookup_refs_skips_root(root, addr_int, mbits) ==
  lookup_walk_refs(root, PathBits(addr_int, mbits, mbits), 0, << >>)

lookup_refs(root, addr_int, mbits) ==
  NodeRefs(root, << >>)
    \o lookup_walk_refs(root, PathBits(addr_int, mbits, mbits), 0, << >>)

Deref(root, ref) == root[ref.node][ref.i]

\* ---- handler locals and responses
NoAddr == [v |-> 0, addr |-> 0]

NoText == [v |-> 0, addr |-> 0, len |-> 0, form |-> "none"]

NoResp ==
  [status |-> 0, dst |-> NoText, nh |-> "", updated_routes |-> 0,
   health |-> "", routes_loaded |-> 0, radix_tree_routes |-> 0]

RouteResponse(dst, nh) == [NoResp EXCEPT !.status = 200, !.dst = dst, !.nh = nh]

MetricUpdateResponse(updated_routes) ==
  [NoResp EXCEPT !.status = 200, !.updated_routes = updated_routes]

HTTPException(status_code) == [NoResp EXCEPT !.status = status_code]

HealthResponse(routes_loaded, radix_routes) ==
  [NoResp EXCEPT !.status = 200,
                 !.health = IF routes_loaded = radix_routes THEN "healthy"
                                                            ELSE "degraded",
                 !.routes_loaded = routes_loaded,
                 !.radix_tree_routes = radix_routes]

\* pc is the handler's position; the other fields are its locals, and four
\* history fields of a lookup, all relative to the update that took df_lock
\* last:
\*   rewritten - the routes among its candidates that update has rewritten,
\*   sawPre    - it read the metric of a route before that update rewrote it,
\*   sawPost   - it read the metric of a route after that update rewrote it,
\*   quiet     - it began after a successful update had returned, and no
\*               update has taken df_lock since it began.
IdleThread ==
  [pc |-> "idle", op |-> "none", prefix |-> NoText, nh |-> "", matchd |-> "",
   ip_str |-> NoAddr, result |-> << >>,
   keys |-> << >>, value |-> << >>, version |-> 0, new_df |-> << >>,
   metric |-> 0, refs |-> << >>, n |-> 0, routes_loaded |-> 0, resp |-> NoResp,
   rewritten |-> {}, sawPre |-> FALSE, sawPost |-> FALSE, quiet |-> FALSE]

Done(me, resp) ==
  [IdleThread EXCEPT !.pc = "done", !.op = me.op, !.prefix = me.prefix,
                     !.ip_str = me.ip_str,
                     !.resp = resp, !.quiet = me.quiet]

\* ---- functools.lru_cache(maxsize) around cached_radix_lookup
CacheIndex(c, key) ==
  IF \E i \in DOMAIN c : c[i].key = key
    THEN CHOOSE i \in DOMAIN c : c[i].key = key
    ELSE 0

\* mutant: a hit leaves the order of the entries alone
cache_touch_keeps_order(c, i) == c

\* a hit makes the entry the most recently used one
cache_touch(c, i) ==
  SubSeq(c, 1, i - 1) \o SubSeq(c, i + 1, Len(c)) \o <<c[i]>>

\* the result is stored unless the key was added meanwhile; a full cache
\* drops its least recently used entry
cache_put(c, key, value, computedBefore) ==
  IF CacheIndex(c, key) # 0
    THEN c
    ELSE (IF Len(c) >= CacheSize THEN Tail(c) ELSE c)
         \o <<[key |-> key, value |-> value, old |-> computedBefore]>>

\* history: key has just been used (found by a probe, or stored)
Used(keys, key) ==
  LET Other(k) == k # key
      all == SelectSeq(keys, Other) \o <<key>>
  IN  IF Len(all) > CacheSize + 1 THEN Tail(all) ELSE all

\* ---- GET /destination/{prefix}: get_nh, up to the cache probe and, on a
\* miss, radix_tree.lookup (the cached call runs without df_lock)
\* mutant: the key is the text of the whole network, length included
network_address_str_with_len(ipadd) ==
  [v |-> ipadd.version, addr |-> ipadd.network_address, len |-> ipadd.prefixlen]

\* str(ipadd.network_address): the address that is looked up and cached
network_address_str(ipadd) ==
  [v |-> ipadd.version, addr |-> ipadd.network_address]

get_nh(t, prefix) ==
  /\ th[t].pc = "idle"
  /\ UNCHANGED <<tree, caller, df, df_lock, updated, processes>>
  /\ IF ~ip_network_ok(prefix)
       THEN /\ th' = [th EXCEPT ![t] =
                        Done([IdleThread EXCEPT !.op = "get_nh", !.prefix = prefix],
                             HTTPException(400))]
            /\ UNCHANGED <<cache, recent>>
       ELSE LET ipadd == ip_network(prefix)
                ip_str == network_address_str(ipadd)
                me == [IdleThread EXCEPT
                         !.op = "get_nh", !.prefix = prefix, !.ip_str = ip_str,
                         !.quiet = updated /\ df_lock = "free"]
                hit == CacheIndex(cache, ip_str)
                result == lookup_refs(root_of(ip_str.v), ip_str.addr,
                                      max_bits(ip_str.v))
            IN  IF hit # 0
                  THEN /\ cache' = cache_touch(cache, hit)
                       /\ recent' = Used(recent, ip_str)
                       /\ th' = [th EXCEPT ![t] =
                            IF cache[hit].value # << >>
                              THEN Done(me, RouteResponse(cache[hit].value[1],
                                                          cache[hit].value[2]))
                              ELSE [me EXCEPT !.pc = "l_lock"]]
                  ELSE /\ UNCHANGED <<cache, recent>>
                       /\ th' = [th EXCEPT ![t] =
                            IF result = << >>
                              THEN [me EXCEPT !.pc = "store"]
                              ELSE [me EXCEPT !.pc = "read_key", !.result = result]]

\* history: an update in progress is still going to give this route of the
\* given tree another metric
ToBeRewritten(version, ref) ==
  \E u \in Threads :
    /\ th[u].pc = "u_mutate"
    /\ th[u].version = version
    /\ ref \in Range(th[u].refs)
    /\ Deref(root_of(version), ref).metric # th[u].metric

\* sorted(result, key=...): the key of the next route is computed, which
\* reads its metric
read_key(t) ==
  /\ th[t].pc = "read_key"
  /\ UNCHANGED <<tree, caller, df, cache, recent, df_lock, updated, processes>>
  /\ LET me == th[t]
         k == Len(me.keys) + 1
         x == me.result[k]
     IN  th' = [th EXCEPT ![t] =
           [me EXCEPT
              !.keys = Append(@, Deref(root_of(me.ip_str.v), me.result[k]).metric),
              !.pc = IF k = Len(me.result) THEN "pick" ELSE "read_key",
              !.sawPre = @ \/ ToBeRewritten(me.ip_str.v, x),
              !.sawPost = @ \/ x \in me.rewritten]]

\* the routes as the sort saw them: each with the metric its key recorded
Observed(root, result, keys) ==
  [i \in DOMAIN result |->
     [prefix |-> Deref(root, result[i]).prefix,
      next_hop |-> Deref(root, result[i]).next_hop,
      prefix_len |-> Deref(root, result[i]).prefix_len,
      nhn |-> Deref(root, result[i]).nhn,
      metric |-> keys[i],
      ref |-> result[i]]]

\* best = sorted(...)[0]; return (best.prefix, best.next_hop, best.metric)
pick(t) ==
  /\ th[t].pc = "pick"
  /\ UNCHANGED <<tree, caller, df, cache, recent, df_lock, updated, processes>>
  /\ LET me == th[t]
         root == root_of(me.ip_str.v)
         best == best_route(Observed(root, me.result, me.keys))
         x == best.ref
     IN  th' = [th EXCEPT ![t] =
           [me EXCEPT
              !.value = <<best.prefix, best.next_hop, Deref(root, best.ref).metric>>,
              !.keys = << >>,
              !.pc = "store",
              !.sawPre = @ \/ ToBeRewritten(me.ip_str.v, x),
              !.sawPost = @ \/ x \in me.rewritten]]

\* mutant: the lookup counts the answer it stores as a route of the tree
store_counts(t) ==
  /\ th[t].pc = "store"
  /\ UNCHANGED <<ipv4_root, ipv6_root, caller, df, df_lock, updated, processes>>
  /\ route_count' = route_count + 1
  /\ LET me == th[t]
     IN  /\ cache' = cache_put(cache, me.ip_str, me.value, me.sawPre)
         /\ recent' = Used(recent, me.ip_str)
         /\ th' = [th EXCEPT ![t] =
              IF me.value # << >>
                THEN Done(me, RouteResponse(me.value[1], me.value[2]))
                ELSE [me EXCEPT !.pc = "l_lock", !.result = << >>]]

\* the lru_cache wrapper stores what the call returned; get_nh answers from
\* it, or goes on to the locked path when it is None
store(t) ==
  /\ th[t].pc = "store"
  /\ UNCHANGED <<tree, caller, df, df_lock, updated, processes>>
  /\ LET me == th[t]
     IN  /\ cache' = cache_put(cache, me.ip_str, me.value, me.sawPre)
         /\ recent' = Used(recent, me.ip_str)
         /\ th' = [th EXCEPT ![t] =
              IF me.value # << >>
                THEN Done(me, RouteResponse(me.value[1], me.value[2]))
                ELSE [me EXCEPT !.pc = "l_lock", !.result = << >>]]

\* with df_lock: (get_nh, no cached route)
l_lock(t) ==
  /\ th[t].pc = "l_lock"
  /\ df_lock = "free"
  /\ df_lock' = t
  /\ th' = [th EXCEPT ![t].pc = "l_locked"]
  /\ UNCHANGED <<tree, caller, df, cache, recent, updated, processes>>

\* lpm_lookup_radix under the lock: 404 when nothing matches; otherwise the
\* frame it returns has no sort_values (AttributeError, answered as 500)
l_locked(t) ==
  /\ th[t].pc = "l_locked"
  /\ df_lock' = "free"
  /\ LET me == th[t]
         next_hop_df == lookup_routes(root_of(me.ip_str.v), me.ip_str.addr,
                                      max_bits(me.ip_str.v))
     IN  th' = [th EXCEPT ![t] =
           Done(me, HTTPException(IF Len(next_hop_df) = 0 THEN 404 ELSE 500))]
  /\ UNCHANGED <<tree, caller, df, cache, recent, updated, processes>>

\* ---- PUT /prefix/.../nh/.../metric/...[/match/...]: the checks both update
\* handlers make, in their order; 0 when the request passes them
\* mutant: the match mode is not checked
validate_skips_match_mode(prefix, nh, metric, matchd) ==
  IF metric < 1 \/ metric > max_metric THEN 400
  ELSE IF ~ip_network_ok(prefix) \/ ~ip_address_ok(nh) THEN 400
  ELSE 0

validate(prefix, nh, metric, matchd) ==
  IF metric < 1 \/ metric > max_metric THEN 400
  ELSE IF matchd \notin {"orlonger", "exact"} THEN 400
  ELSE IF ~ip_network_ok(prefix) \/ ~ip_address_ok(nh) THEN 400
  ELSE 0

\* history kept for a lookup in flight when an update takes the lock: the
\* routes whose metric it has read
ReadSoFar(o) ==
  IF o.pc \in {"read_key", "pick"}
    THEN { o.result[i] : i \in 1 .. Len(o.keys) }
    ELSE IF o.pc = "store" THEN Range(o.result) ELSE {}

\* lpm_update(df, prefix_ip, nh, metric, matchd="orlonger"): the mode when
\* the caller passes none
\* mutant: the default mode is exact
matchd_default_exact == "exact"

matchd_default == "orlonger"

\* the locals of a handler that has made its checks and, if they passed,
\* the calls of lpm_update up to the first assignment of a metric
entered(op, prefix, nh, metric, matchd) ==
  LET me == [IdleThread EXCEPT !.op = op]
  IN  IF validate(prefix, nh, metric, matchd) # 0
        THEN Done(me, HTTPException(validate(prefix, nh, metric, matchd)))
        ELSE LET prefix_ip == ip_network(prefix)
                 refs == update_targets(root_of(prefix_ip.version), prefix_ip,
                                        nh, matchd)
             IN  [me EXCEPT
                    !.pc = IF refs = << >> THEN "u_commit" ELSE "u_mutate",
                    !.version = prefix_ip.version,
                    !.metric = metric,
                    !.refs = refs,
                    !.new_df = updated_df(df, prefix_ip, nh, metric, matchd),
                    !.n = next_hop_df_len(df, prefix_ip, nh, matchd)]

\* A rejected request is answered at once.  An accepted one enters
\* "with df_lock" (the checks touch nothing shared, so the step is taken when
\* the lock is free): lpm_update computes updated_df and next_hop_df from the
\* mirror, and radix_tree.update_metric finds the routes it will assign.
locked_update(t, op, prefix, nh, metric, matchd) ==
  /\ UNCHANGED <<tree, caller, df, cache, recent, updated, processes>>
  /\ LET me == [IdleThread EXCEPT !.op = op]
     IN  IF validate(prefix, nh, metric, matchd) # 0
           THEN /\ th' = [th EXCEPT ![t] = entered(op, prefix, nh, metric, matchd)]
                /\ UNCHANGED df_lock
           ELSE LET prefix_ip == ip_network(prefix)
                    root == root_of(prefix_ip.version)
                    refs == update_targets(root, prefix_ip, nh, matchd)
                    changed == { refs[i] : i \in { j \in DOMAIN refs :
                                   Deref(root, refs[j]).metric # metric } }
                IN  /\ df_lock = "free"
                    /\ df_lock' = t
                    /\ th' = [o \in Threads |->
                         IF o = t
                           THEN entered(op, prefix, nh, metric, matchd)
                           ELSE [th[o] EXCEPT
                                   !.quiet = FALSE,
                                   !.rewritten = {},
                                   !.sawPost = FALSE,
                                   !.sawPre = /\ th[o].ip_str.v = prefix_ip.version
                                              /\ ReadSoFar(th[o]) \cap changed # {}]]

\* update: lpm_update is called with its default matchd
update(t, prefix, nh, metric) ==
  /\ th[t].pc = "idle"
  /\ locked_update(t, "update", prefix, nh, metric, matchd_default)

update_match(t, prefix, nh, metric, matchd) ==
  /\ th[t].pc = "idle"
  /\ locked_update(t, "update_match", prefix, nh, metric, matchd)

\* route.metric = metric, for the next route of the update
u_mutate(t) ==
  /\ th[t].pc = "u_mutate"
  /\ UNCHANGED <<route_count, caller, df, cache, recent, df_lock, updated,
               processes>>
  /\ LET me == th[t]
         ref == Head(me.refs)
         changes == Deref(root_of(me.version), ref).metric # me.metric
     IN  /\ IF me.version = 4
              THEN /\ ipv4_root' = SetMetric(ipv4_root, ref, me.metric)
                   /\ UNCHANGED ipv6_root
              ELSE /\ ipv6_root' = SetMetric(ipv6_root, ref, me.metric)
                   /\ UNCHANGED ipv4_root
         /\ th' = [o \in Threads |->
              IF o = t
                THEN [me EXCEPT !.refs = Tail(@),
                                !.pc = IF Tail(me.refs) = << >> THEN "u_commit"
                                                               ELSE "u_mutate"]
                ELSE IF /\ changes
                        /\ th[o].ip_str.v = me.version
                        /\ ref \in Range(th[o].result)
                       THEN [th[o] EXCEPT !.rewritten = @ \cup {ref}]
                       ELSE th[o]]

\* mutant: the 404 is raised with df_lock still held
u_commit_keeps_lock(t) ==
  /\ th[t].pc = "u_commit"
  /\ UNCHANGED <<tree, caller, updated, processes>>
  /\ LET me == th[t]
     IN  /\ df' = me.new_df
         /\ UNCHANGED df_lock
         /\ IF me.n = 0
              THEN /\ UNCHANGED <<cache, recent>>
                   /\ th' = [th EXCEPT ![t] = Done(me, HTTPException(404))]
              ELSE /\ cache' = << >>
                   /\ recent' = << >>
                   /\ th' = [th EXCEPT ![t] =
                        [me EXCEPT !.pc = "u_unlock", !.new_df = << >>]]

\* mutant: the cache is cleared whether or not a row matched
u_commit_always_clears(t) ==
  /\ th[t].pc = "u_commit"
  /\ UNCHANGED <<tree, caller, updated, processes>>
  /\ LET me == th[t]
     IN  /\ df' = me.new_df
         /\ cache' = << >>
         /\ recent' = << >>
         /\ IF me.n = 0
              THEN /\ df_lock' = "free"
                   /\ th' = [th EXCEPT ![t] = Done(me, HTTPException(404))]
              ELSE /\ UNCHANGED df_lock
                   /\ th' = [th EXCEPT ![t] =
                        [me EXCEPT !.pc = "u_unlock", !.new_df = << >>]]

\* df = updated_df; 404 when no row matched (the lock is released, the cache
\* is left alone); otherwise cached_radix_lookup.cache_clear()
u_commit(t) ==
  /\ th[t].pc = "u_commit"
  /\ UNCHANGED <<tree, caller, updated, processes>>
  /\ LET me == th[t]
     IN  /\ df' = me.new_df
         /\ IF me.n = 0
              THEN /\ df_lock' = "free"
                   /\ UNCHANGED <<cache, recent>>
                   /\ th' = [th EXCEPT ![t] = Done(me, HTTPException(404))]
              ELSE /\ cache' = << >>
                   /\ recent' = << >>
                   /\ UNCHANGED df_lock
                   /\ th' = [th EXCEPT ![t] =
                        [me EXCEPT !.pc = "u_unlock", !.new_df = << >>]]

\* the with block ends; the handler returns updated_routes
u_unlock(t) ==
  /\ th[t].pc = "u_unlock"
  /\ df_lock' = "free"
  /\ updated' = TRUE
  /\ updater' = running
  /\ th' = [th EXCEPT ![t] = Done(th[t], MetricUpdateResponse(th[t].n))]
  /\ UNCHANGED <<tree, caller, df, cache, recent, running, parked>>

\* the response is sent; the thread takes the next request
\* GET /health: "routes_loaded = len(df)"
health(t) ==
  /\ th[t].pc = "idle"
  /\ th' = [th EXCEPT ![t] = [IdleThread EXCEPT !.pc = "h_count",
                                               !.op = "health",
                                               !.routes_loaded = Len(df)]]
  /\ UNCHANGED <<tree, caller, df, cache, recent, df_lock, updated, processes>>

\* "radix_routes = radix_tree.route_count", and the response
h_count(t) ==
  /\ th[t].pc = "h_count"
  /\ th' = [th EXCEPT ![t] =
        Done(th[t], HealthResponse(th[t].routes_loaded, route_count))]
  /\ UNCHANGED <<tree, caller, df, cache, recent, df_lock, updated, processes>>

finish(t) ==
  /\ th[t].pc = "done"
  /\ th' = [th EXCEPT ![t] = IdleThread]
  /\ UNCHANGED <<tree, caller, df, cache, recent, df_lock, updated, processes>>

\* ---- the requests the clients send
QueryTexts == PrefixTexts

\* every prefix text with every next hop, metric and match type the handlers
\* accept, and one request for each reason they reject
UpdateRequests ==
  [prefix : PrefixTexts, nh : {"10.0.0.1", "10.0.0.2"},
   metric : Metrics, matchd : {"exact", "orlonger"}]
  \cup [prefix : {V4Text(0, 0)}, nh : {"10.0.0.1"},
        metric : {0, MaxMetric + 1}, matchd : {"exact"}]
  \cup {[prefix |-> V4Text(0, 0), nh |-> "10.0.0.1", metric |-> 1, matchd |-> "longer"],
        [prefix |-> V4Text(0, 0), nh |-> "bogus", metric |-> 1, matchd |-> "exact"]}

\* the requests of the threaded runs: an address under the routes and one
\* outside FileTwoHops, a malformed query, every accepted update of the
\* two prefixes the files hold, and an update with a metric on either side
\* of the range
ThreadFiles == {FileNested, FileTwoHops}

ThreadQueryTexts ==
  {V4Text(0, V4Bits), V4Text(Pow2(V4Bits - 1), V4Bits), V4Text(1, 0)}

ThreadUpdateRequests ==
  [prefix : {V4Text(0, 0), V4Text(0, 1)}, nh : {"10.0.0.1", "10.0.0.2"},
   metric : Metrics, matchd : {"exact", "orlonger"}]
  \cup [prefix : {V4Text(0, 1)}, nh : {"10.0.0.1"},
        metric : {0, MaxMetric + 1}, matchd : {"exact"}]

InitService(files) ==
  /\ \E file \in files :
       /\ df = prep_df(get_df_polars(file))
       /\ ipv4_root = build_radix_tree(df).ipv4_root
       /\ ipv6_root = build_radix_tree(df).ipv6_root
       /\ route_count = build_radix_tree(df).route_count
  /\ cache = << >>
  /\ recent = << >>
  /\ df_lock = "free"
  /\ th = [t \in Threads |-> IdleThread]
  /\ updated = FALSE
  /\ ret = [op |-> "idle"]
  /\ old = Snapshot
  /\ inserts = Len(df)
  /\ ins = [t \in Threads |-> InsIdle]
  /\ wk = [t \in Threads |-> WkIdle]

NextService(T, Q, U) ==
  \E t \in T :
    \/ \E prefix \in Q : get_nh(t, prefix)
    \/ read_key(t)
    \/ pick(t)
    \/ store(t)
    \/ l_lock(t)
    \/ l_locked(t)
    \/ \E r \in U : update(t, r.prefix, r.nh, r.metric)
    \/ \E r \in U : update_match(t, r.prefix, r.nh, r.metric, r.matchd)
    \/ u_mutate(t)
    \/ u_commit(t)
    \/ u_unlock(t)
    \/ health(t)
    \/ h_count(t)
    \/ finish(t)

\* requests served one after another: a single thread
InitSeq == InitService(RouteFiles) /\ one_process

NextSeq == NextService({"t1"}, QueryTexts, UpdateRequests)

SpecSeq == InitSeq /\ [][NextSeq]_vars

\* requests served by the threads of one process
InitThreads == InitService(ThreadFiles) /\ one_process

NextThreads == NextService(Threads, ThreadQueryTexts, ThreadUpdateRequests)

SpecThreads == InitThreads /\ [][NextThreads]_vars

\* ---- requests that wait for df_lock.  In the runs above an update handler
\* enters "with df_lock" in the step that makes its checks; here the two are
\* separate steps, so that an update that has passed its checks and finds
\* the lock taken is a state of its own, as a lookup at "l_lock" is.
\* the checks of an update handler: a rejected request is answered at once,
\* an accepted one goes on to "with df_lock"
u_check(t, op, prefix, nh, metric, matchd) ==
  /\ th' = [th EXCEPT ![t] =
       IF validate(prefix, nh, metric, matchd) # 0
         THEN entered(op, prefix, nh, metric, matchd)
         ELSE [IdleThread EXCEPT !.pc = "u_lock", !.op = op, !.prefix = prefix,
                                 !.nh = nh, !.metric = metric, !.matchd = matchd]]
  /\ UNCHANGED <<tree, caller, df, cache, recent, df_lock, updated, processes>>

update_checks(t, prefix, nh, metric) ==
  /\ th[t].pc = "idle"
  /\ u_check(t, "update", prefix, nh, metric, matchd_default)

update_match_checks(t, prefix, nh, metric, matchd) ==
  /\ th[t].pc = "idle"
  /\ u_check(t, "update_match", prefix, nh, metric, matchd)

\* with df_lock: (update handlers)
u_lock(t) ==
  /\ th[t].pc = "u_lock"
  /\ locked_update(t, th[t].op, th[t].prefix, th[t].nh, th[t].metric,
                   th[t].matchd)

\* the routes file with one prefix; an address under it and one outside; an
\* update that matches, one that matches nothing (404 inside the with
\* block), one that is rejected
FairFiles == {FileTwoHops}

FairQueryTexts == {V4Text(0, V4Bits), V4Text(Pow2(V4Bits - 1), V4Bits)}

FairUpdateRequests ==
  {[prefix |-> V4Text(0, 1), nh |-> "10.0.0.1", metric |-> 1, matchd |-> "exact"],
   [prefix |-> V4Text(0, 0), nh |-> "10.0.0.1", metric |-> 1, matchd |-> "exact"],
   [prefix |-> V4Text(0, 1), nh |-> "10.0.0.1", metric |-> 0, matchd |-> "exact"]}

InitFair == InitService(FairFiles) /\ one_process

NextFair ==
  \E t \in Threads :
    \/ \E prefix \in FairQueryTexts : get_nh(t, prefix)
    \/ read_key(t)
    \/ pick(t)
    \/ store(t)
    \/ l_lock(t)
    \/ l_locked(t)
    \/ \E r \in FairUpdateRequests : update_checks(t, r.prefix, r.nh, r.metric)
    \/ \E r \in FairUpdateRequests :
         update_match_checks(t, r.prefix, r.nh, r.metric, r.matchd)
    \/ u_lock(t)
    \/ u_mutate(t)
    \/ u_commit(t)
    \/ u_unlock(t)
    \/ finish(t)

\* the next statement of a handler that is not waiting for the lock
Proceed(t) ==
  \/ read_key(t) \/ pick(t) \/ store(t) \/ l_locked(t)
  \/ u_mutate(t) \/ u_commit(t) \/ u_unlock(t)

\* df_lock.acquire()
Acquire(t) == l_lock(t) \/ u_lock(t)

\* A thread that can run its next statement gets to run it; a thread that
\* waits for df_lock gets it if the lock is free again and again.  Nothing
\* obliges a client to send a request or a thread to take the next one.
Fairness ==
  \A t \in Threads : WF_vars(Proceed(t)) /\ SF_vars(Acquire(t))

SpecFair == InitFair /\ [][NextFair]_vars /\ Fairness

\* ---- uvicorn.run("service.main:app", ..., workers=settings.proc_num):
\* ProcNum worker processes serve the one listening socket. Each worker is
\* an interpreter of its own that imports service.main, so each runs the
\* module-level statements and holds its own df, radix_tree, lru_cache and
\* df_lock.
Procs == 1 .. ProcNum

\* the module state of the running worker
ModuleState ==
  [ipv4_root |-> ipv4_root, ipv6_root |-> ipv6_root, route_count |-> route_count,
   df |-> df, cache |-> cache, recent |-> recent]

\* every worker has loaded settings.routes_file
InitWorkers ==
  /\ InitService(ThreadFiles)
  /\ running = 1
  /\ parked = [p \in Procs \ {1} |-> ModuleState]
  /\ updater = 0

\* the next connection is accepted by worker p: from here on the handlers
\* run on p's module state (a worker serves its requests one after another)
accept(p) ==
  /\ p \in DOMAIN parked
  /\ \A t \in Threads : th[t].pc = "idle"
  /\ running' = p
  /\ parked' = [q \in Procs \ {p} |->
                  IF q = running THEN ModuleState ELSE parked[q]]
  /\ ipv4_root' = parked[p].ipv4_root
  /\ ipv6_root' = parked[p].ipv6_root
  /\ route_count' = parked[p].route_count
  /\ df' = parked[p].df
  /\ cache' = parked[p].cache
  /\ recent' = parked[p].recent
  /\ UNCHANGED <<caller, df_lock, th, updated, updater>>

NextWorkers ==
  \/ NextService({"t1"}, ThreadQueryTexts, ThreadUpdateRequests)
  \/ \E p \in Procs : accept(p)

SpecWorkers == InitWorkers /\ [][NextWorkers]_vars

\* ============ the core called from several threads (tests/test_concurrency.py)
\* the prefixes the threads insert: every text ip_network accepts, in the
\* canonical spelling, so that distinct texts are distinct networks
InsertPrefixes == { t \in PrefixTexts : ip_network_ok(t) /\ t.form = "canon" }

\* insert_batch: each thread inserts its own prefixes one after another, and
\* no prefix is given twice
Batches ==
  { b \in [Threads -> UNION { [1 .. n -> InsertPrefixes] : n \in 1 .. BatchLen }] :
      /\ \A t \in Threads : \A i, j \in DOMAIN b[t] : b[t][i] = b[t][j] => i = j
      /\ \A t, u \in Threads : t # u => Range(b[t]) \cap Range(b[u]) = {} }

ins_network(t) == ip_network(Head(ins[t].batch))

ins_path(t) ==
  PathBits(ins_network(t).network_address, ins_network(t).prefixlen,
           max_bits(ins_network(t).version))

\* the nodes the walk of thread t sees
ins_tree(t) ==
  IF ins[t].own = << >> THEN root_of(ins_network(t).version) ELSE ins[t].own

\* the subtree hanging on node c
Subtree(root, c) == [p \in { q \in DOMAIN root : IsPrefixOf(c, q) } |-> root[p]]

\* current.left = RadixNode() (or .right): the link to child c now points to
\* a new empty node; what hung there before is no longer part of the tree
AssignChild(root, c) ==
  [p \in { q \in DOMAIN root : ~IsPrefixOf(c, q) } \cup {c} |->
     IF p = c THEN RadixNode ELSE root[p]]

\* insert is entered: the prefix is parsed, the route is built, current = root
i_begin(t) ==
  /\ ins[t].pc = "idle"
  /\ ins[t].batch # << >>
  /\ ins' = [ins EXCEPT ![t].pc = "walk", ![t].current = << >>]
  /\ UNCHANGED <<tree, ret, old, inserts, service, wk, processes>>

\* one turn of the loop: "if current.left is None" and, when the child is
\* there, "current = current.left"; after the last bit the loop ends
i_walk(t) ==
  /\ ins[t].pc = "walk"
  /\ LET me == ins[t]
         path == ins_path(t)
         child == SubSeq(path, 1, Len(me.current) + 1)
     IN  ins' = [ins EXCEPT ![t] =
           IF me.current = path
             THEN [me EXCEPT !.pc = "append"]
             ELSE IF child \in DOMAIN ins_tree(t)
                    THEN [me EXCEPT !.current = child]
                    ELSE [me EXCEPT !.pc = "create"]]
  /\ UNCHANGED <<tree, ret, old, inserts, service, wk, processes>>

\* "current.left = RadixNode()", decided when the child was found missing.
\* A thread whose walk is below the replaced link keeps the nodes it holds.
i_create(t) ==
  /\ ins[t].pc = "create"
  /\ LET me == ins[t]
         version == ins_network(t).version
         child == SubSeq(ins_path(t), 1, Len(me.current) + 1)
     IN  IF me.own # << >>
           THEN /\ ins' = [ins EXCEPT ![t].pc = "walk",
                                      ![t].own = AssignChild(me.own, child)]
                /\ UNCHANGED tree
           ELSE /\ ins' = [o \in Threads |->
                     IF o = t
                       THEN [me EXCEPT !.pc = "walk"]
                       ELSE IF /\ ins[o].pc \notin {"idle", "read", "write"}
                               /\ ins[o].own = << >>
                               /\ ins_network(o).version = version
                               /\ IsPrefixOf(child, ins[o].current)
                              THEN [ins[o] EXCEPT
                                      !.own = Subtree(root_of(version), child)]
                              ELSE ins[o]]
                /\ IF version = 4
                     THEN /\ ipv4_root' = AssignChild(ipv4_root, child)
                          /\ UNCHANGED ipv6_root
                     ELSE /\ ipv6_root' = AssignChild(ipv6_root, child)
                          /\ UNCHANGED ipv4_root
                /\ UNCHANGED route_count
  /\ UNCHANGED <<ret, old, inserts, service, wk, processes>>

\* current.routes.append(route)
i_append(t) ==
  /\ ins[t].pc = "append"
  /\ LET me == ins[t]
         network == ins_network(t)
         route == RouteInfo(Head(me.batch), "10.0.0.1", mxmetric,
                            network.prefixlen, network.version)
     IN  IF me.own # << >>
           THEN /\ ins' = [ins EXCEPT ![t].pc = "read",
                                      ![t].own = [me.own EXCEPT ![me.current] =
                                                    Append(@, route)]]
                /\ UNCHANGED tree
           ELSE /\ ins' = [ins EXCEPT ![t].pc = "read"]
                /\ IF network.version = 4
                     THEN /\ ipv4_root' = [ipv4_root EXCEPT ![me.current] =
                                             Append(@, route)]
                          /\ UNCHANGED ipv6_root
                     ELSE /\ ipv6_root' = [ipv6_root EXCEPT ![me.current] =
                                             Append(@, route)]
                          /\ UNCHANGED ipv4_root
                /\ UNCHANGED route_count
  /\ UNCHANGED <<ret, old, inserts, service, wk, processes>>

\* self.route_count += 1, the read
i_read(t) ==
  /\ ins[t].pc = "read"
  /\ ins' = [ins EXCEPT ![t].pc = "write", ![t].count = route_count]
  /\ UNCHANGED <<tree, ret, old, inserts, service, wk, processes>>

\* self.route_count += 1, the write; insert returns
i_write(t) ==
  /\ ins[t].pc = "write"
  /\ route_count' = ins[t].count + 1
  /\ inserts' = inserts + 1
  /\ ins' = [ins EXCEPT ![t] = [InsIdle EXCEPT !.batch = Tail(ins[t].batch)]]
  /\ UNCHANGED <<ipv4_root, ipv6_root, ret, old, service, wk, processes>>

InitInserts ==
  /\ ipv4_root = (<< >> :> RadixNode)
  /\ ipv6_root = (<< >> :> RadixNode)
  /\ route_count = 0
  /\ ret = [op |-> "idle"]
  /\ old = Snapshot
  /\ inserts = 0
  /\ \E b \in Batches : ins = [t \in Threads |-> [InsIdle EXCEPT !.batch = b[t]]]
  /\ wk = [t \in Threads |-> WkIdle]
  /\ df = << >>
  /\ cache = << >>
  /\ recent = << >>
  /\ df_lock = "free"
  /\ th = [t \in Threads |-> IdleThread]
  /\ updated = FALSE
  /\ one_process

NextInserts ==
  \E t \in Threads :
    \/ i_begin(t)
    \/ i_walk(t)
    \/ i_create(t)
    \/ i_append(t)
    \/ i_read(t)
    \/ i_write(t)

SpecInserts == InitInserts /\ [][NextInserts]_vars

\* ============================= update_metric and lookup called from threads
\* tests/test_concurrency.py calls RadixTree.update_metric and
\* RadixTree.lookup from several threads with no lock; a thread can be
\* preempted between any two bytecodes, so every assignment of a metric and
\* every turn of the lookup loop is a step of its own.

\* the routes the tests insert before the threads start: a covering prefix
\* and two nested ones below it, behind one next hop, with the default metric
PreRoutes == <<V4Text(0, 0), V4Text(0, 1), V4Text(0, 2)>>

RECURSIVE preloaded(_)
preloaded(prefixes) ==
  IF prefixes = << >>
    THEN EmptyTree
    ELSE tree_insert(preloaded(SubSeq(prefixes, 1, Len(prefixes) - 1)),
                     prefixes[Len(prefixes)], "10.0.0.1", mxmetric)

\* mutant: the recursion over the subtree starts at the root, whatever the
\* prefix
m_call_from_root(t, prefix, next_hop, metric, match_type) ==
  /\ wk[t].pc = "idle"
  /\ Len(wk[t].log) < MaxUpdates
  /\ ip_network_ok(prefix)
  /\ LET network == ip_network(prefix)
         root == root_of(network.version)
         todo == IF match_type = "exact"
                   THEN update_targets(root, network, next_hop, match_type)
                   ELSE update_subtree(root, << >>, next_hop)
         call == [op |-> "update_metric", network |-> network,
                  next_hop |-> next_hop, metric |-> metric,
                  match_type |-> match_type]
     IN  wk' = [wk EXCEPT ![t] =
           [@ EXCEPT !.pc = IF todo = << >> THEN "m_return" ELSE "m_write",
                     !.call = call,
                     !.todo = todo,
                     !.updated_count = 0,
                     !.log = Append(@, [call |-> call, count |-> -1])]]
  /\ UNCHANGED <<tree, ret, old, inserts, ins, service, processes>>

\* update_metric is entered: the prefix is parsed and the loop walks down to
\* its node. No thread of these tests changes the shape of the tree or the
\* prefix or next hop of a route, so the routes the call will assign, and
\* their order, are those found now.
m_call(t, prefix, next_hop, metric, match_type) ==
  /\ wk[t].pc = "idle"
  /\ Len(wk[t].log) < MaxUpdates
  /\ ip_network_ok(prefix)
  /\ LET network == ip_network(prefix)
         todo == update_targets(root_of(network.version), network, next_hop,
                                match_type)
         call == [op |-> "update_metric", network |-> network,
                  next_hop |-> next_hop, metric |-> metric,
                  match_type |-> match_type]
     IN  wk' = [wk EXCEPT ![t] =
           [@ EXCEPT !.pc = IF todo = << >> THEN "m_return" ELSE "m_write",
                     !.call = call,
                     !.todo = todo,
                     !.updated_count = 0,
                     !.log = Append(@, [call |-> call, count |-> -1])]]
  /\ UNCHANGED <<tree, ret, old, inserts, ins, service, processes>>

\* mutant: the metric is assigned to the route the walk meets first, whatever
\* route matched
m_write_first_route(t) ==
  /\ wk[t].pc = "m_write"
  /\ LET me == wk[t]
         ref == RouteRef(<< >>, 1)
     IN  /\ IF me.call.network.version = 4
               THEN /\ ipv4_root' = SetMetric(ipv4_root, ref, me.call.metric)
                    /\ UNCHANGED ipv6_root
               ELSE /\ ipv6_root' = SetMetric(ipv6_root, ref, me.call.metric)
                    /\ UNCHANGED ipv4_root
         /\ wk' = [wk EXCEPT ![t] =
               [me EXCEPT !.pc = IF Tail(me.todo) = << >> THEN "m_return"
                                                          ELSE "m_write",
                          !.todo = Tail(me.todo),
                          !.updated_count = me.updated_count + 1]]
  /\ UNCHANGED <<route_count, ret, old, inserts, ins, service, processes>>

\* "route.metric = metric; updated_count += 1" for the next matching route
m_write(t) ==
  /\ wk[t].pc = "m_write"
  /\ LET me == wk[t]
         ref == Head(me.todo)
     IN  /\ IF me.call.network.version = 4
               THEN /\ ipv4_root' = SetMetric(ipv4_root, ref, me.call.metric)
                    /\ UNCHANGED ipv6_root
               ELSE /\ ipv6_root' = SetMetric(ipv6_root, ref, me.call.metric)
                    /\ UNCHANGED ipv4_root
         /\ wk' = [wk EXCEPT ![t] =
               [me EXCEPT !.pc = IF Tail(me.todo) = << >> THEN "m_return"
                                                          ELSE "m_write",
                          !.todo = Tail(me.todo),
                          !.updated_count = me.updated_count + 1]]
  /\ UNCHANGED <<route_count, ret, old, inserts, ins, service, processes>>

\* "return updated_count"
m_return(t) ==
  /\ wk[t].pc = "m_return"
  /\ wk' = [wk EXCEPT ![t] =
        [WkIdle EXCEPT !.log = [wk[t].log EXCEPT ![Len(wk[t].log)].count =
                                  wk[t].updated_count]]]
  /\ UNCHANGED <<tree, ret, old, inserts, ins, service, processes>>

\* mutant: the routes attached at the root are not collected
k_call_skips_root(t, ip_address) ==
  /\ wk[t].pc = "idle"
  /\ LET root == root_of(ip_address.v)
     IN  wk' = [wk EXCEPT ![t] =
           [@ EXCEPT !.pc = "k_walk",
                     !.call = [op |-> "lookup", ip_address |-> ip_address],
                     !.current = << >>,
                     !.matching_routes = << >>,
                     !.base = lookup_refs(root, ip_address.addr,
                                          max_bits(ip_address.v))]]
  /\ UNCHANGED <<tree, ret, old, inserts, ins, service, processes>>

\* lookup is entered: current = root, and the routes attached at the root
\* are collected
k_call(t, ip_address) ==
  /\ wk[t].pc = "idle"
  /\ LET root == root_of(ip_address.v)
     IN  wk' = [wk EXCEPT ![t] =
           [@ EXCEPT !.pc = "k_walk",
                     !.call = [op |-> "lookup", ip_address |-> ip_address],
                     !.current = << >>,
                     !.matching_routes = NodeRefs(root, << >>),
                     !.base = lookup_refs(root, ip_address.addr,
                                          max_bits(ip_address.v))]]
  /\ UNCHANGED <<tree, ret, old, inserts, ins, service, processes>>

\* one turn of the loop: break when the child is missing, else move to it
\* and collect the routes attached there; after the last bit the list is
\* returned
k_walk(t) ==
  /\ wk[t].pc = "k_walk"
  /\ LET me == wk[t]
         a == me.call.ip_address
         root == root_of(a.v)
         bits == PathBits(a.addr, max_bits(a.v), max_bits(a.v))
         child == SubSeq(bits, 1, Len(me.current) + 1)
     IN  wk' = [wk EXCEPT ![t] =
           IF me.current = bits \/ child \notin DOMAIN root
             THEN [me EXCEPT !.pc = "k_read"]
             ELSE [me EXCEPT !.current = child,
                             !.matching_routes = @ \o NodeRefs(root, child)]]
  /\ UNCHANGED <<tree, ret, old, inserts, ins, service, processes>>

\* the caller reads the next route of the list it got (the list holds the
\* RouteInfo objects of the tree, not copies)
k_read(t) ==
  /\ wk[t].pc = "k_read"
  /\ Len(wk[t].seen) < Len(wk[t].matching_routes)
  /\ LET me == wk[t]
         ref == me.matching_routes[Len(me.seen) + 1]
     IN  wk' = [wk EXCEPT ![t].seen =
                  Append(@, Deref(root_of(me.call.ip_address.v), ref))]
  /\ UNCHANGED <<tree, ret, old, inserts, ins, service, processes>>

\* the caller is done with the list
k_return(t) ==
  /\ wk[t].pc = "k_read"
  /\ Len(wk[t].seen) = Len(wk[t].matching_routes)
  /\ wk' = [wk EXCEPT ![t] = [WkIdle EXCEPT !.log = wk[t].log]]
  /\ UNCHANGED <<tree, ret, old, inserts, ins, service, processes>>

\* the prefixes the updating threads name
UpdatePrefixes == Range(PreRoutes)

InitUpdates ==
  /\ ipv4_root = preloaded(PreRoutes).ipv4_root
  /\ ipv6_root = preloaded(PreRoutes).ipv6_root
  /\ route_count = preloaded(PreRoutes).route_count
  /\ ret = [op |-> "idle"]
  /\ old = Snapshot
  /\ inserts = Len(PreRoutes)
  /\ ins = [t \in Threads |-> InsIdle]
  /\ wk = [t \in Threads |-> WkIdle]
  /\ df = << >>
  /\ cache = << >>
  /\ recent = << >>
  /\ df_lock = "free"
  /\ th = [t \in Threads |-> IdleThread]
  /\ updated = FALSE
  /\ one_process

\* every thread updates (test_concurrent_metric_updates,
\* test_rapid_metric_updates)
NextUpdates ==
  \E t \in Threads :
    \/ \E prefix \in UpdatePrefixes, metric \in Metrics, match_type \in MatchTypes :
          m_call(t, prefix, "10.0.0.1", metric, match_type)
    \/ m_write(t)
    \/ m_return(t)

SpecUpdates == InitUpdates /\ [][NextUpdates]_vars

\* ---- one thread works on the tree while the others look up
\* (test_no_race_conditions_in_updates, test_read_while_writing)
Writer == "t1"

NextVerify ==
  \/ \E prefix \in UpdatePrefixes, metric \in Metrics, match_type \in MatchTypes :
        m_call(Writer, prefix, "10.0.0.1", metric, match_type)
  \/ m_write(Writer)
  \/ m_return(Writer)
  \/ \E t \in Threads \ {Writer} :
        \/ \E ip_address \in Addresses : k_call(t, ip_address)
        \/ k_walk(t)
        \/ k_read(t)
        \/ k_return(t)

SpecVerify == InitUpdates /\ [][NextVerify]_vars

\* the prefixes the writer inserts, none of them twice
WriterBatches ==
  { b \in UNION { [1 .. n -> InsertPrefixes] : n \in 1 .. WriterLen } :
      \A i, j \in DOMAIN b : b[i] = b[j] => i = j }

InitReadWrite ==
  /\ ipv4_root = (<< >> :> RadixNode)
  /\ ipv6_root = (<< >> :> RadixNode)
  /\ route_count = 0
  /\ ret = [op |-> "idle"]
  /\ old = Snapshot
  /\ inserts = 0
  /\ \E b \in WriterBatches :
        ins = [t \in Threads |->
                 IF t = Writer THEN [InsIdle EXCEPT !.batch = b] ELSE InsIdle]
  /\ wk = [t \in Threads |-> WkIdle]
  /\ df = << >>
  /\ cache = << >>
  /\ recent = << >>
  /\ df_lock = "free"
  /\ th = [t \in Threads |-> IdleThread]
  /\ updated = FALSE
  /\ one_process

NextReadWrite ==
  \/ i_begin(Writer)
  \/ i_walk(Writer)
  \/ i_create(Writer)
  \/ i_append(Writer)
  \/ i_read(Writer)
  \/ i_write(Writer)
  \/ \E t \in Threads \ {Writer} :
        \/ \E ip_address \in Addresses : k_call(t, ip_address)
        \/ k_walk(t)
        \/ k_read(t)
        \/ k_return(t)

SpecReadWrite == InitReadWrite /\ [][NextReadWrite]_vars

\* ====================================================== the core on its own
Init ==
  /\ ipv4_root = (<< >> :> RadixNode)
  /\ ipv6_root = (<< >> :> RadixNode)
  /\ route_count = 0
  /\ ret = [op |-> "idle"]
  /\ old = Snapshot
  /\ inserts = 0
  /\ ins = [t \in Threads |-> InsIdle]
  /\ wk = [t \in Threads |-> WkIdle]
  /\ df = << >>
  /\ cache = << >>
  /\ recent = << >>
  /\ df_lock = "free"
  /\ th = [t \in Threads |-> IdleThread]
  /\ updated = FALSE
  /\ one_process

Next ==
  \/ Return
  \/ \E prefix \in PrefixTexts, next_hop \in NextHops, metric \in Metrics :
        insert(prefix, next_hop, metric)
  \/ \E ip_address \in Addresses : lookup(ip_address)
  \/ \E prefix \in PrefixTexts, next_hop \in NextHops, metric \in Metrics,
        match_type \in MatchTypes :
        update_metric(prefix, next_hop, metric, match_type)

Spec == Init /\ [][Next]_vars

\* =================================================================== claims
Count(seq, r) == Cardinality({ i \in DOMAIN seq : seq[i] = r })

AllRefs(root) ==
  UNION { { RouteRef(n, i) : i \in 1 .. Len(root[n]) } : n \in DOMAIN root }

\* address a lies inside the network a prefix text denotes
Contains(text, a) ==
  /\ text.v = a.v
  /\ a.addr \div Pow2(max_bits(a.v) - text.len)
       = text.addr \div Pow2(max_bits(a.v) - text.len)

old_root(version) == IF version = 4 THEN old.ipv4_root ELSE old.ipv6_root

UpdateDone ==
  ret.op = "update_metric" /\ ret.error = "none"

PathOfText(text) == PathBits(text.addr, text.len, max_bits(text.v))

\* C1: lookup(a) returns exactly the stored routes of a's family whose prefix
\* contains a, each as often as it is stored, and no other route.
C1_LookupExact ==
  ret.op = "lookup" =>
    \A r \in Range(get_all_routes) \cup Range(ret.result) :
      Count(ret.result, r) =
        IF r.version = ret.ip_address.v /\ Contains(r.prefix, ret.ip_address)
          THEN Count(get_all_routes, r)
          ELSE 0

C1_Witness ==
  /\ ret.op = "lookup"
  /\ \E i, j \in DOMAIN ret.result :
        ret.result[i].prefix_len = 0 /\ ret.result[j].prefix_len > 0

\* the candidates of an address in the store as it is now
Candidates(a) == lookup_routes(root_of(a.v), a.addr, max_bits(a.v))

\* x is not behind y under the key (-prefix_len, metric, next hop number)
KeyLeq(x, y) ==
  \/ x.prefix_len > y.prefix_len
  \/ x.prefix_len = y.prefix_len /\ x.metric < y.metric
  \/ x.prefix_len = y.prefix_len /\ x.metric = y.metric /\ x.nhn <= y.nhn

Answered(t, op) == th[t].pc = "done" /\ th[t].op = op

\* C2: the route a lookup request returns for an address is a minimum of the
\* address's candidates under the key (-prefix_len, metric, next hop number):
\* longest prefix, then smaller metric, then smaller next hop (requests
\* served one after another).
C2_BestIsMinimum ==
  \A t \in Threads :
    (Answered(t, "get_nh") /\ th[t].resp.status = 200) =>
      LET result == Candidates(th[t].ip_str)
      IN  \E i \in DOMAIN result :
            /\ \A j \in DOMAIN result : KeyLeq(result[i], result[j])
            /\ th[t].resp.dst = result[i].prefix
            /\ th[t].resp.nh = result[i].next_hop

C2_Witness ==
  \E t \in Threads :
    /\ Answered(t, "get_nh") /\ th[t].resp.status = 200 /\ updated
    /\ LET result == Candidates(th[t].ip_str)
       IN  \E i, j \in DOMAIN result :
             /\ result[i].prefix_len = result[j].prefix_len
             /\ result[i].metric < result[j].metric
             /\ result[i].nhn > result[j].nhn
             /\ th[t].resp.nh = result[i].next_hop

\* what a lookup of the address answers from the store as it is now
Expected(a) ==
  IF Candidates(a) = << >>
    THEN HTTPException(404)
    ELSE RouteResponse(best_route(Candidates(a)).prefix,
                       best_route(Candidates(a)).next_hop)

Mutating(u) == th[u].pc = "u_mutate"

ReadingTrie(l) == th[l].pc \in {"read_key", "pick"}

C7_OrlongerExact ==
  (UpdateDone /\ ret.match_type = "orlonger") =>
    LET before == old_root(ret.prefix.v)
        after == root_of(ret.prefix.v)
        S == { x \in AllRefs(before) :
                 /\ IsPrefixOf(PathOfText(ret.prefix), x.node)
                 /\ before[x.node][x.i].next_hop = ret.next_hop }
    IN  /\ ret.count = Cardinality(S)
        /\ AllRefs(after) = AllRefs(before)
        /\ \A x \in AllRefs(before) :
             after[x.node][x.i].metric =
               IF x \in S THEN ret.metric ELSE before[x.node][x.i].metric

C7_Witness ==
  /\ UpdateDone /\ ret.match_type = "orlonger" /\ ret.count = 2
  /\ LET root == root_of(ret.prefix.v)
     IN  \E x, y \in AllRefs(root) :
            /\ x.node # y.node
            /\ root[x.node][x.i].next_hop = ret.next_hop
            /\ root[y.node][y.i].next_hop = ret.next_hop

\* C8: after an exact update on p, nh, m every route at p's node whose next
\* hop is nh and whose prefix text is the canonical text of p has metric m,
\* and the update returned the number of those routes.
C8_ExactSetsAndCounts ==
  (UpdateDone /\ ret.match_type = "exact") =>
    LET network == ip_network(ret.prefix)
        root == root_of(network.version)
        path == PathOfText(ret.prefix)
        S == IF path \in DOMAIN root
               THEN { i \in DOMAIN root[path] :
                        /\ root[path][i].next_hop = ret.next_hop
                        /\ root[path][i].prefix = with_prefixlen(network) }
               ELSE {}
    IN  /\ ret.count = Cardinality(S)
        /\ \A i \in S : root[path][i].metric = ret.metric

C8_Witness ==
  /\ UpdateDone /\ ret.match_type = "exact" /\ ret.count = 1
  /\ LET root == root_of(ret.prefix.v)
         path == PathOfText(ret.prefix)
     IN  \E i \in DOMAIN root[path] : root[path][i].metric # ret.metric

\* C9: a metric update changes no metric outside its match set (exact: the
\* routes at p's node with that next hop; orlonger: the routes in p's
\* subtree with that next hop), and changes neither route_count, the nodes,
\* the number of routes per node, nor any field of a route other than
\* metric, in either tree.
C9_UpdateFrame ==
  UpdateDone =>
    LET path == PathOfText(ret.prefix)
        InMatchSet(version, root, x) ==
          /\ version = ret.prefix.v
          /\ root[x.node][x.i].next_hop = ret.next_hop
          /\ IF ret.match_type = "exact"
               THEN x.node = path
               ELSE IsPrefixOf(path, x.node)
    IN  /\ route_count = old.route_count
        /\ \A version \in Versions :
             LET before == old_root(version)
                 after == root_of(version)
             IN  /\ DOMAIN after = DOMAIN before
                 /\ \A n \in DOMAIN before : Len(after[n]) = Len(before[n])
                 /\ \A x \in AllRefs(before) :
                      /\ [after[x.node][x.i] EXCEPT !.metric = 0]
                           = [before[x.node][x.i] EXCEPT !.metric = 0]
                      /\ ~InMatchSet(version, before, x) =>
                           after[x.node][x.i] = before[x.node][x.i]

C9_Witness ==
  /\ UpdateDone /\ ret.match_type = "exact" /\ ret.count = 1
  /\ LET root == root_of(ret.prefix.v)
         path == PathOfText(ret.prefix)
     IN  \E x \in AllRefs(root) :
            /\ x.node # path /\ IsPrefixOf(path, x.node)
            /\ root[x.node][x.i].next_hop = ret.next_hop
            /\ root[x.node][x.i].metric # ret.metric

\* C10 (as stated): after an exact update on p, nh, m the route selected for
\* any address inside p has metric m iff a route (p, nh) existed before.
C10_Original ==
  (UpdateDone /\ ret.match_type = "exact") =>
    LET network == ip_network(ret.prefix)
        root == root_of(network.version)
        before == old_root(network.version)
    IN  \A a \in Addresses :
          Contains(ret.prefix, a) =>
            LET result == lookup_routes(root, a.addr, max_bits(a.v))
            IN  (result # << >> /\ best_route(result).metric = ret.metric)
                  <=> (\E x \in AllRefs(before) :
                          /\ before[x.node][x.i].prefix = with_prefixlen(network)
                          /\ before[x.node][x.i].next_hop = ret.next_hop)

\* C10 (amended): after an exact update on p, nh, m, for any address a inside
\* p the candidates of a include a route with prefix text p, next hop nh and
\* metric m iff a route (p, nh) was stored before the update; then the
\* selected route has a longer prefix than p, or p's length and a metric
\* <= m; otherwise the candidates, hence the selected route, are unchanged.
C10_ExactThenLookup ==
  (UpdateDone /\ ret.match_type = "exact") =>
    LET network == ip_network(ret.prefix)
        before == old_root(network.version)
        after == root_of(network.version)
        existed == \E x \in AllRefs(before) :
                      /\ before[x.node][x.i].prefix = with_prefixlen(network)
                      /\ before[x.node][x.i].next_hop = ret.next_hop
    IN  \A a \in Addresses :
          Contains(ret.prefix, a) =>
            LET was == lookup_routes(before, a.addr, max_bits(a.v))
                result == lookup_routes(after, a.addr, max_bits(a.v))
            IN  /\ existed <=>
                     \E i \in DOMAIN result :
                        /\ result[i].prefix = with_prefixlen(network)
                        /\ result[i].next_hop = ret.next_hop
                        /\ result[i].metric = ret.metric
                /\ existed =>
                     \/ best_route(result).prefix_len > network.prefixlen
                     \/ /\ best_route(result).prefix_len = network.prefixlen
                        /\ best_route(result).metric <= ret.metric
                /\ ~existed => result = was

C10_Witness ==
  /\ UpdateDone /\ ret.match_type = "exact" /\ ret.count = 1
  /\ LET network == ip_network(ret.prefix)
         root == root_of(network.version)
     IN  \E a \in Addresses :
            /\ Contains(ret.prefix, a)
            /\ best_route(lookup_routes(root, a.addr, max_bits(a.v))).prefix_len
                 > network.prefixlen

\* the store a repetition of the update just made would leave, and its count
Repeated ==
  LET network == ip_network(ret.prefix)
      root == root_of(network.version)
      refs == update_targets(root, network, ret.next_hop, ret.match_type)
  IN  [root |-> ApplyMetric(root, refs, ret.metric), count |-> Len(refs)]

\* C11: a metric update is idempotent: making the same update again right
\* after it leaves the store as the first call left it, and returns the
\* same count.
C11_Idempotent ==
  UpdateDone =>
    /\ Repeated.root = root_of(ret.prefix.v)
    /\ Repeated.count = ret.count

\* the first call rewrote several routes
C11_Witness ==
  /\ UpdateDone /\ ret.count >= 2
  /\ \E x \in AllRefs(root_of(ret.prefix.v)) :
        /\ x \in AllRefs(old_root(ret.prefix.v))
        /\ old_root(ret.prefix.v)[x.node][x.i].metric # ret.metric
        /\ root_of(ret.prefix.v)[x.node][x.i].metric = ret.metric

\* C12: whenever no call is in progress, route_count equals the number of
\* inserts that have succeeded, and equals the number of entries
\* get_all_routes finds in the two tries together; lookups and metric
\* updates leave it alone.
C12_RouteCount ==
  /\ route_count = inserts
  /\ Len(get_all_routes) = inserts

\* both tries hold an entry, and a metric update has just rewritten one
C12_Witness ==
  /\ UpdateDone /\ ret.count >= 1
  /\ inserts = MaxRoutes
  /\ collect_routes(ipv4_root, << >>) # << >>
  /\ collect_routes(ipv6_root, << >>) # << >>

\* every thread has inserted its whole batch
InsertsDone == \A t \in Threads : ins[t].pc = "idle" /\ ins[t].batch = << >>

\* C13: when threads have inserted pairwise distinct prefixes concurrently,
\* with no lock, route_count equals the number of inserts made and
\* get_all_routes returns that many entries: no insert is lost.
C13_ConcurrentInserts ==
  InsertsDone =>
    /\ route_count = inserts
    /\ Len(get_all_routes) = inserts

\* C14: the two families are kept apart: every entry of the IPv4 trie is an
\* IPv4 route and every entry of the IPv6 trie an IPv6 route, and a lookup
\* returns only routes of the family of the address looked up.
C14_FamilyIsolation ==
  /\ \A r \in Range(collect_routes(ipv4_root, << >>)) :
        r.version = 4 /\ r.prefix.v = 4
  /\ \A r \in Range(collect_routes(ipv6_root, << >>)) :
        r.version = 6 /\ r.prefix.v = 6
  /\ ret.op = "lookup" =>
        \A r \in Range(ret.result) :
          r.version = ret.ip_address.v /\ r.prefix.v = ret.ip_address.v

\* a lookup answered from one trie while the other holds a default route
C14_Witness ==
  /\ ret.op = "lookup" /\ ret.result # << >>
  /\ root_of(IF ret.ip_address.v = 4 THEN 6 ELSE 4)[<< >>] # << >>

\* C15: the cache never stores a negative result: no entry of the cache
\* holds "no route", and once a lookup has been answered 404 the cache has
\* no entry for the address it asked.
C15_NoNegativeEntry ==
  /\ \A i \in DOMAIN cache : cache[i].value # << >>
  /\ \A t \in Threads :
        (Answered(t, "get_nh") /\ th[t].resp.status = 404) =>
          CacheIndex(cache, th[t].ip_str) = 0

\* what cached_radix_lookup would return for address a from the store as it
\* is now
Fresh(a) ==
  IF Candidates(a) = << >>
    THEN << >>
    ELSE <<best_route(Candidates(a)).prefix, best_route(Candidates(a)).next_hop,
           best_route(Candidates(a)).metric>>

\* no request is being served
Quiescent == \A t \in Threads : th[t].pc \in {"idle", "done"}

\* C16: after completed, non-overlapping lookups and updates every cache
\* entry maps its address to the (prefix, next_hop, metric) of a stored
\* route, the one a fresh trie lookup followed by the ordering selects now.
C16_EntriesCurrent ==
  Quiescent =>
    \A i \in DOMAIN cache :
      cache[i].value # << >> /\ cache[i].value = Fresh(cache[i].key)

\* the part of C16 the code keeps: every entry holds what a fresh lookup of
\* its address returns now, a route or none
EntriesFresh ==
  Quiescent => \A i \in DOMAIN cache : cache[i].value = Fresh(cache[i].key)

\* the last n elements of a sequence
LastOf(seq, n) ==
  IF Len(seq) <= n THEN seq ELSE SubSeq(seq, Len(seq) - n + 1, Len(seq))

\* C17: the cache never holds more entries than its capacity, and it holds
\* exactly the most recently used keys: what a store evicts from a full
\* cache is the entry used least recently, a hit and a store both being a
\* use.
C17_CapacityAndLRU ==
  /\ Len(cache) <= CacheSize
  /\ [i \in DOMAIN cache |-> cache[i].key] = LastOf(recent, CacheSize)

\* a full cache has evicted a key to store the answer just given
C17_Witness ==
  /\ Len(cache) = CacheSize
  /\ Len(recent) > CacheSize
  /\ \E t \in Threads :
        /\ Answered(t, "get_nh") /\ th[t].resp.status = 200
        /\ cache[Len(cache)].key = th[t].ip_str

\* the stored routes of a's family whose prefix contains a
Covering(a) ==
  { r \in Range(get_all_routes) : r.version = a.v /\ Contains(r.prefix, a) }

NothingToUpdate(prefix, nh, matchd) ==
  LET root == root_of(prefix.v)
      path == PathOfText(prefix)
  IN  \/ path \notin DOMAIN root
      \/ /\ matchd = "exact"
         /\ \A i \in DOMAIN root[path] : root[path][i].next_hop # nh
      \/ /\ matchd = "orlonger"
         /\ \A x \in AllRefs(root) :
               IsPrefixOf(path, x.node) => root[x.node][x.i].next_hop # nh

\* between requests, for every request the handlers admit while the trie
\* holds nothing it could touch: update_metric finds no route (it returns 0), and lpm_update
\* matches no row and leaves the mirror as it is
FindsNothing ==
  \A r \in UpdateRequests :
    ( /\ \A t \in Threads : th[t].pc = "idle"
      /\ validate(r.prefix, r.nh, r.metric, r.matchd) = 0
      /\ NothingToUpdate(r.prefix, r.nh, r.matchd) )
    => LET prefix_ip == ip_network(r.prefix)
       IN  /\ update_targets(root_of(prefix_ip.version), prefix_ip, r.nh,
                               r.matchd) = << >>
           /\ next_hop_df_len(df, prefix_ip, r.nh, r.matchd) = 0
           /\ updated_df(df, prefix_ip, r.nh, r.metric, r.matchd) = df

\* a step of thread t that admits an update which found no route and no
\* row touches nothing, and the step after it answers 404 and touches
\* nothing either
AnswersNotFound(t) ==
  /\ ( /\ th[t].pc = "idle" /\ th'[t].op \in {"update", "update_match"}
       /\ th'[t].pc # "done" /\ th'[t].refs = << >> /\ th'[t].n = 0 )
     => ( /\ th'[t].pc = "u_commit" /\ th'[t].new_df = df
          /\ UNCHANGED <<tree, df, cache>> )
  /\ ( th[t].pc = "u_commit" /\ th[t].n = 0 /\ th'[t] # th[t] )
     => ( /\ th'[t].pc = "done"
          /\ th'[t].resp = HTTPException(404)
          /\ UNCHANGED <<tree, df, cache>> )

\* C19: an update request that passes the checks while the trie holds
\* nothing it could touch updates nothing: the core finds no route (count
\* 0, no error), the mirror matches no row, and the request is answered 404
\* with every metric, the mirror and the cache as they were.
C19_NothingUpdated ==
  /\ []FindsNothing
  /\ [][\A t \in Threads : AnswersNotFound(t)]_vars

\* an update answered 404 while the cache holds an answer given earlier
C19_Witness ==
  \E t \in Threads :
    /\ th[t].pc = "done" /\ th[t].op \in {"update", "update_match"}
    /\ th[t].resp.status = 404
    /\ \E i \in DOMAIN cache : cache[i].value # << >>

\* a reason to reject an update request
Rejectable(prefix, nh, metric, matchd) ==
  \/ metric \notin 1 .. MaxMetric
  \/ matchd \notin {"exact", "orlonger"}
  \/ HostBits(prefix) # 0
  \/ nh \notin {"10.0.0.1", "10.0.0.2"}

\* between requests: the checks of the handlers answer 400 to every request
\* that has a reason to be rejected (update has no match mode to check)
ChecksReject ==
  \A r \in UpdateRequests :
    (\A t \in Threads : th[t].pc = "idle") =>
      /\ Rejectable(r.prefix, r.nh, r.metric, r.matchd)
           => validate(r.prefix, r.nh, r.metric, r.matchd) = 400
      /\ Rejectable(r.prefix, r.nh, r.metric, "orlonger")
           => validate(r.prefix, r.nh, r.metric, "orlonger") = 400

\* the step in which thread t takes an update request and the checks fail
\* answers 400 and changes no metric, nor the mirror, nor the cache
RejectStep(t) ==
  ( /\ th[t].pc = "idle" /\ th'[t].pc = "done"
    /\ th'[t].op \in {"update", "update_match"} )
  => ( /\ th'[t].resp = HTTPException(400)
       /\ UNCHANGED <<tree, df, cache, df_lock>> )

\* C20: an update request with a metric outside [1, max_metric], a match
\* mode other than exact and orlonger, or a prefix or next hop that does
\* not parse is answered 400, and every metric, the mirror and the cache
\* are left unchanged.
C20_RejectedUnchanged ==
  /\ []ChecksReject
  /\ [][\A t \in Threads : RejectStep(t)]_vars

\* a request rejected after earlier requests have filled the cache and
\* updated metrics
C20_Witness ==
  \E t \in Threads :
    /\ th[t].pc = "done" /\ th[t].op = "update_match"
    /\ th[t].resp.status = 400
    /\ cache # << >>
    /\ \E r \in Range(get_all_routes) : r.metric # mxmetric

\* no update has written a metric yet
NothingWritten ==
  /\ ~updated
  /\ \A t \in Threads : th[t].pc \notin {"u_mutate", "u_commit", "u_unlock"}

\* C21: after the load and any interleaving of update requests, every
\* route's metric (and every row's, in the mirror) lies in 1 .. max_metric;
\* until an update writes one, every route and row has the default metric
\* the loader gave it.
C21_MetricRange ==
  /\ \A r \in Range(get_all_routes) : r.metric \in 1 .. MaxMetric
  /\ \A i \in DOMAIN df : df[i].metric \in 1 .. MaxMetric
  /\ NothingWritten =>
        /\ \A r \in Range(get_all_routes) : r.metric = MaxMetric
        /\ \A i \in DOMAIN df : df[i].metric = MaxMetric

\* one update has written the lowest metric, another is being applied, and
\* a request with a metric out of range has been rejected
C21_Witness ==
  /\ \E r \in Range(get_all_routes) : r.metric = 1
  /\ \E r \in Range(get_all_routes) : r.metric = MaxMetric
  /\ \E t \in Threads : th[t].pc = "u_mutate"
  /\ \E t \in Threads : th[t].pc = "done" /\ th[t].resp.status = 400

InsertFailed == ret.op = "insert" /\ ret.error = "ValueError"

\* C23: an insert whose prefix does not parse raises ValueError and leaves
\* the store as it was before the call: no node created, no entry attached,
\* route_count not incremented.
C23_FailedInsertUnchanged ==
  InsertFailed =>
    /\ ipv4_root = old.ipv4_root
    /\ ipv6_root = old.ipv6_root
    /\ route_count = old.route_count
    /\ inserts = route_count

\* an insert has failed on a store that already holds a route
C23_Witness ==
  /\ InsertFailed
  /\ route_count >= 1
  /\ Len(get_all_routes) = route_count

\* the update_metric calls made so far, each with its thread and its place
\* in that thread's log
Logged == { c \in Threads \X (1 .. MaxUpdates) : c[2] <= Len(wk[c[1]].log) }

Entry(c) == wk[c[1]].log[c[2]]

\* the node of a logged call's prefix
NodeOf(c) ==
  PathBits(Entry(c).call.network.network_address, Entry(c).call.network.prefixlen,
           max_bits(Entry(c).call.network.version))

\* every call made so far was an exact update and has returned
AllExactReturned ==
  \A c \in Logged : Entry(c).call.match_type = "exact" /\ Entry(c).count # -1

\* C24: when the threads have run exact updates concurrently and all have
\* returned, each call returned 1, no route was added or lost, and each
\* named route carries a metric written by a call that named it: its own
\* call's value when no other call named the prefix, one of the written
\* values when several did; a route no call named keeps its metric.
C24_ConcurrentExactUpdates ==
  AllExactReturned =>
    /\ route_count = Len(PreRoutes)
    /\ Len(get_all_routes) = Len(PreRoutes)
    /\ \A c \in Logged :
          /\ Entry(c).count = 1
          /\ Len(ipv4_root[NodeOf(c)]) = 1
          /\ ipv4_root[NodeOf(c)][1].metric \in
                { Entry(d).call.metric : d \in { e \in Logged : NodeOf(e) = NodeOf(c) } }
    /\ \A node \in DOMAIN ipv4_root :
          (ipv4_root[node] # << >> /\ \A c \in Logged : NodeOf(c) # node)
             => ipv4_root[node][1].metric = mxmetric

\* two threads have updated the same route with different values while one
\* of them also updated a route of its own, and all calls have returned
C24_Witness ==
  /\ AllExactReturned
  /\ \A t \in Threads : wk[t].pc = "idle"
  /\ \E c, d, e \in Logged :
        /\ c[1] # d[1] /\ NodeOf(c) = NodeOf(d)
        /\ Entry(c).call.metric # Entry(d).call.metric
        /\ NodeOf(e) # NodeOf(c)
        /\ \A f \in Logged : NodeOf(f) = NodeOf(e) => f = e
        /\ Entry(e).call.metric # mxmetric

\* the logged call c assigns the routes attached at node
Covers(c, node) ==
  IF Entry(c).call.match_type = "exact"
    THEN NodeOf(c) = node
    ELSE IsPrefixOf(NodeOf(c), node)

\* the metrics node's routes can carry: the one they were inserted with and
\* those of the calls that assign them
MetricsFor(node) ==
  {mxmetric} \cup { Entry(c).call.metric : c \in { d \in Logged : Covers(d, node) } }

\* the last call of the updating thread that assigns node's routes (0: none)
LastCovering(node) ==
  LET S == { i \in DOMAIN wk[Writer].log : Covers(<<Writer, i>>, node) }
  IN  IF S = {} THEN 0 ELSE CHOOSE i \in S : \A j \in S : j <= i

\* C25: while one thread updates subtrees and another looks up, every route
\* the looking thread reads from a returned list has the metric it was
\* inserted with or the metric of an update whose subtree holds it, so a
\* route outside every updated subtree (the covering prefix) is never seen
\* changed; once the updates have returned, every route in an updated
\* subtree carries the metric of the last update that covers it.
C25_SubtreeUpdateIsolation ==
  /\ \A t \in Threads \ {Writer} :
        \A i \in DOMAIN wk[t].seen :
          wk[t].seen[i].metric \in MetricsFor(wk[t].matching_routes[i].node)
  /\ wk[Writer].pc = "idle" =>
        \A node \in DOMAIN ipv4_root :
          \A i \in DOMAIN ipv4_root[node] :
            ipv4_root[node][i].metric =
              IF LastCovering(node) = 0
                THEN mxmetric
                ELSE wk[Writer].log[LastCovering(node)].call.metric

\* a lookup that ran during an orlonger update of the middle prefix has read
\* the covering route unchanged, the middle route with the new metric and
\* the innermost route still with the old one
C25_Witness ==
  \E t \in Threads \ {Writer} :
    /\ wk[Writer].pc = "m_write"
    /\ wk[Writer].call.match_type = "orlonger"
    /\ wk[Writer].call.network.prefixlen = 1
    /\ wk[Writer].call.metric # mxmetric
    /\ Len(wk[t].seen) = 3
    /\ wk[t].seen[1].prefix_len = 0 /\ wk[t].seen[1].metric = mxmetric
    /\ wk[t].seen[2].metric = wk[Writer].call.metric
    /\ wk[t].seen[3].metric = mxmetric

\* C26: while one thread inserts new prefixes, a lookup by another thread
\* holds only routes that are in the tree (reading them cannot fail), and
\* the list it returns holds every route that matched its address when the
\* lookup was entered, so a route whose insert has returned is in the list
\* of every later lookup of an address inside its prefix.
C26_LookupDuringInserts ==
  \A t \in Threads \ {Writer} :
    wk[t].call.op = "lookup" =>
      LET root == root_of(wk[t].call.ip_address.v)
      IN  /\ \A i \in DOMAIN wk[t].matching_routes :
                /\ wk[t].matching_routes[i].node \in DOMAIN root
                /\ wk[t].matching_routes[i].i
                     \in DOMAIN root[wk[t].matching_routes[i].node]
          /\ wk[t].pc = "k_read" =>
                /\ Range(wk[t].base) \subseteq Range(wk[t].matching_routes)
                /\ \A r \in Range(wk[t].matching_routes) :
                      IsPrefixOf(r.node,
                                 PathBits(wk[t].call.ip_address.addr,
                                          max_bits(wk[t].call.ip_address.v),
                                          max_bits(wk[t].call.ip_address.v)))

\* a lookup entered after the first insert returned, and overtaken by the
\* second, has returned both routes
C26_Witness ==
  \E t \in Threads \ {Writer} :
    /\ wk[t].pc = "k_read"
    /\ Len(wk[t].base) = 1
    /\ Len(wk[t].matching_routes) = 2
    /\ Len(wk[t].seen) = 2
    /\ inserts >= 1
    /\ ins[Writer].pc \in {"read", "write"}

\* C27: in every state after the startup load, whatever lookups and updates
\* have run, the table mirror has as many rows as the tree counts routes;
\* /health answers "healthy" exactly when the two counts it read are equal,
\* and so it never answers "degraded".
C27_HealthyAlways ==
  /\ Len(df) = route_count
  /\ \A t \in Threads :
        Answered(t, "health") =>
          /\ th[t].resp.status = 200
          /\ th[t].resp.routes_loaded = Len(df)
          /\ th[t].resp.radix_tree_routes = route_count
          /\ th[t].resp.health = "healthy"
                <=> th[t].resp.routes_loaded = th[t].resp.radix_tree_routes
          /\ th[t].resp.health \in {"healthy", "degraded"}
          /\ th[t].resp.health # "degraded"

\* /health has answered after an update rewrote routes and a lookup filled
\* the cache again
C27_Witness ==
  \E t \in Threads :
    /\ Answered(t, "health")
    /\ th[t].resp.routes_loaded = MaxRoutes
    /\ updated
    /\ cache # << >>
    /\ \E r \in Range(get_all_routes) : r.metric # mxmetric

\* the entry at place i of node is attached where its prefix says
AttachedRight(version, node, i) ==
  LET route == root_of(version)[node][i]
      network == ip_network(route.prefix)
  IN  /\ route.version = version
      /\ route.prefix_len = Len(node)
      /\ network.prefixlen = Len(node)
      /\ \A k \in 1 .. Len(node) :
            node[k] = (network.network_address \div Pow2(max_bits(version) - k)) % 2

\* C28: every entry attached at a node of depth d has prefix_len = d, and
\* the bits of the path from the root to the node are the d most
\* significant bits of the entry's network address.
C28_DepthIsPrefixLen ==
  \A version \in Versions :
    \A node \in DOMAIN root_of(version) :
      \A i \in DOMAIN root_of(version)[node] : AttachedRight(version, node, i)

\* the store holds entries at two depths, one of them on a path that a walk
\* from the other end of the address would not take
C28_Witness ==
  /\ route_count = MaxRoutes
  /\ ret.op = "insert" /\ ret.error = "none"
  /\ \E node \in DOMAIN ipv4_root :
        /\ ipv4_root[node] # << >>
        /\ Len(node) = 1 /\ node[1] = 1
  /\ \E node \in DOMAIN ipv4_root \cup DOMAIN ipv6_root :
        /\ Len(node) # 1
        /\ \/ node \in DOMAIN ipv4_root /\ ipv4_root[node] # << >>
           \/ node \in DOMAIN ipv6_root /\ ipv6_root[node] # << >>

\* C29: the list lookup returns is ordered by non-decreasing prefix_len; the
\* routes it collects come from nodes of non-decreasing depth.
C29_LookupOrdered ==
  ret.op = "lookup" =>
    /\ \A i, j \in DOMAIN ret.result :
          i < j => ret.result[i].prefix_len <= ret.result[j].prefix_len
    /\ LET refs == lookup_refs(root_of(ret.ip_address.v), ret.ip_address.addr,
                               max_bits(ret.ip_address.v))
       IN  /\ Len(refs) = Len(ret.result)
           /\ \A i, j \in DOMAIN refs :
                 i < j => Len(refs[i].node) <= Len(refs[j].node)
           /\ \A i \in DOMAIN refs :
                 ret.result[i] = Deref(root_of(ret.ip_address.v), refs[i])

\* a lookup has returned routes of two lengths
C29_Witness ==
  /\ ret.op = "lookup"
  /\ Len(ret.result) = MaxRoutes
  /\ ret.result[1].prefix_len < ret.result[Len(ret.result)].prefix_len

\* the entries at the node of the updated prefix that have the update's next
\* hop: all of them are entries of the very network the update names (C28)
SameNetworkEntries ==
  LET root == root_of(ret.prefix.v)
      path == PathOfText(ret.prefix)
  IN  IF path \in DOMAIN root
        THEN { i \in DOMAIN root[path] : root[path][i].next_hop = ret.next_hop }
        ELSE {}

\* C30: every stored entry's prefix text is the canonical CIDR text of its
\* prefix, and so an exact update returns the number of entries of the
\* network it names that have its next hop, and each of them carries the
\* new metric, whatever spelling the entry was inserted with.
C30_CanonicalText ==
  /\ \A r \in Range(get_all_routes) :
        r.prefix = with_prefixlen(ip_network(r.prefix))
  /\ (UpdateDone /\ ret.match_type = "exact") =>
        /\ ret.count = Cardinality(SameNetworkEntries)
        /\ \A i \in SameNetworkEntries :
              root_of(ret.prefix.v)[PathOfText(ret.prefix)][i].metric = ret.metric

\* the places of a lookup's list whose key no other place beats
Minimal(result) ==
  { i \in DOMAIN result : \A j \in DOMAIN result : ~key_less(result[j], result[i]) }

\* C31: the route selected from a lookup's list is a function of the list,
\* and among the candidates that tie on prefix_len, metric and nhn it is the
\* one that comes first in the list, which is the one inserted first: the
\* tied candidates hang at one node, in the order of their inserts.
C31_FirstInsertedWins ==
  (ret.op = "lookup" /\ ret.result # << >>) =>
    LET result == ret.result
        refs == lookup_refs(root_of(ret.ip_address.v), ret.ip_address.addr,
                            max_bits(ret.ip_address.v))
        first == CHOOSE i \in Minimal(result) : \A j \in Minimal(result) : i <= j
    IN  /\ Minimal(result) # {}
        /\ best_route(result) = result[first]
        /\ \A j \in Minimal(result) :
              /\ refs[j].node = refs[first].node
              /\ refs[first].i <= refs[j].i

\* a lookup has returned two different routes that tie on the whole key
C31_Witness ==
  /\ ret.op = "lookup"
  /\ Cardinality(Minimal(ret.result)) = 2
  /\ ret.result[1] # ret.result[2]
  /\ best_route(ret.result) = ret.result[1]

\* the pairs of entries of one node that have the same prefix text and the
\* same next hop
Duplicates(root) ==
  { d \in AllRefs(root) \X AllRefs(root) :
      /\ d[1].node = d[2].node /\ d[1].i < d[2].i
      /\ Deref(root, d[1]).prefix = Deref(root, d[2]).prefix
      /\ Deref(root, d[1]).next_hop = Deref(root, d[2]).next_hop }

\* C32: inserts are never deduplicated. Every insert that returns has added
\* one entry and raised route_count by one, whether or not its prefix and
\* next hop were stored already; of two entries with identical prefix and
\* next hop at a node, a lookup inside the prefix returns both, and an
\* update that matches one matches, counts and changes both.
C32_NoDeduplication ==
  /\ (ret.op = "insert" /\ ret.error = "none") =>
        /\ route_count = old.route_count + 1
        /\ Len(get_all_routes) = Len(collect_routes(old.ipv4_root, << >>))
                                   + Len(collect_routes(old.ipv6_root, << >>)) + 1
  /\ \A version \in Versions :
        \A d \in Duplicates(root_of(version)) :
          LET root == root_of(version)
              a == Deref(root, d[1])
              b == Deref(root, d[2])
          IN  /\ route_count >= 2
              /\ (ret.op = "lookup" /\ Contains(a.prefix, ret.ip_address)) =>
                    \E i, j \in DOMAIN ret.result :
                       i < j /\ ret.result[i] = a /\ ret.result[j] = b
              /\ (/\ UpdateDone
                  /\ ret.next_hop = a.next_hop
                  /\ ip_network(ret.prefix) = ip_network(a.prefix)
                  /\ ret.match_type = "exact" => a.prefix = with_prefixlen(ip_network(a.prefix)))
                   => /\ ret.count >= 2
                      /\ a.metric = ret.metric
                      /\ b.metric = ret.metric

\* an exact update has counted and changed two entries with the same prefix
\* and next hop
C32_Witness ==
  /\ UpdateDone /\ ret.match_type = "exact" /\ ret.count = 2
  /\ route_count = 2
  /\ Duplicates(root_of(ret.prefix.v)) # {}
  /\ \A r \in Range(get_all_routes) : r.metric = ret.metric /\ r.metric # mxmetric

\* the call in hand is an insert of a prefix that parses with a next hop
\* that does not
InsertedBadHop ==
  /\ ret.op = "insert"
  /\ ip_network_ok(ret.prefix)
  /\ ~ip_address_ok(ret.next_hop)

\* C33: an insert with a valid prefix and a next hop that is not an IP
\* address does not fail: route_count is one more than before, and the last
\* entry at the prefix's node has the prefix, the next-hop text as given,
\* the metric given, and nhn = 0.
C33_BadNextHopStored ==
  InsertedBadHop =>
    LET root == root_of(ret.prefix.v)
        node == PathOfText(ret.prefix)
    IN  /\ ret.error = "none"
        /\ route_count = old.route_count + 1
        /\ node \in DOMAIN root
        /\ root[node] # << >>
        /\ root[node][Len(root[node])].prefix = ret.prefix
        /\ root[node][Len(root[node])].next_hop = ret.next_hop
        /\ root[node][Len(root[node])].metric = ret.metric
        /\ root[node][Len(root[node])].nhn = 0

\* such an insert has returned, beside a route whose next hop parses
C33_Witness ==
  /\ InsertedBadHop
  /\ ret.error = "none"
  /\ route_count = 2
  /\ \E r \in Range(get_all_routes) : r.nhn # 0
  /\ \E r \in Range(get_all_routes) : r.nhn = 0 /\ r.next_hop = "bogus"

\* this step is a step of a lookup that thread t serves
LookupStep(t) ==
  \/ th[t].pc = "idle" /\ th'[t].op = "get_nh"
  \/ /\ th[t].pc \in {"read_key", "pick", "store", "l_lock", "l_locked"}
     /\ th'[t].pc # th[t].pc \/ th'[t].keys # th[t].keys

\* C34: no step of a lookup changes a node, an entry, a metric, route_count
\* or the table mirror, whatever the query and whatever the other threads
\* are doing; of the shared state only the cache (and df_lock) may change.
C34_LookupReadOnly ==
  [][(\E t \in Threads : LookupStep(t))
       => UNCHANGED <<ipv4_root, ipv6_root, route_count, df>>]_vars

\* two lookups are under way at once on a store an update has changed, and
\* the cache holds an entry
C34_Witness ==
  /\ \A t \in Threads :
        th[t].op = "get_nh" /\ th[t].pc \in {"read_key", "pick", "store"}
  /\ updated
  /\ cache # << >>
  /\ \E r \in Range(get_all_routes) : r.metric # mxmetric

\* the bare address of a query text
BareAddress(text) == [v |-> text.v, addr |-> text.addr]

\* thread t serves a lookup whose query text was accepted
LookupAccepted(t) ==
  /\ th[t].op = "get_nh"
  /\ th[t].pc = "done" => th[t].resp.status # 400

Triple(r) == <<r.prefix, r.next_hop, r.metric>>

\* the mirror rows and the trie entries are the same, each as often
TriplesAgree(frame, routes) ==
  \A x \in { Triple(frame[i]) : i \in DOMAIN frame }
           \cup { Triple(routes[i]) : i \in DOMAIN routes } :
    Cardinality({ i \in DOMAIN frame : Triple(frame[i]) = x })
      = Cardinality({ i \in DOMAIN routes : Triple(routes[i]) = x })

\* no update is between its first assignment in the trie and "df = updated_df"
NoUpdateInHand == \A t \in Threads : th[t].pc \notin {"u_mutate", "u_commit"}

\* C36: whenever no update is in hand the mirror rows and the trie entries
\* agree in prefix, next hop and metric; for every request the handlers
\* admit, the number of rows the mirror selects (the updated_routes
\* reported) is the number of routes update_metric assigns; and when an
\* update has matched, the cache has been cleared before the lock is
\* released.
C36_MirrorInStep ==
  /\ NoUpdateInHand => TriplesAgree(df, get_all_routes)
  /\ (cache = << >> /\ \A t \in Threads : th[t].pc = "idle") =>
        \A r \in UpdateRequests :
          validate(r.prefix, r.nh, r.metric, r.matchd) = 0 =>
            LET prefix_ip == ip_network(r.prefix)
            IN  next_hop_df_len(df, prefix_ip, r.nh, r.matchd)
                  = Len(update_targets(root_of(prefix_ip.version), prefix_ip,
                                       r.nh, r.matchd))
  /\ \A t \in Threads :
        /\ th[t].pc = "u_mutate" => th[t].n >= Len(th[t].refs) /\ th[t].n >= 1
        /\ th[t].pc = "u_unlock" => th[t].n >= 1 /\ cache = << >>
        /\ (Answered(t, "update") \/ Answered(t, "update_match")) =>
              (th[t].resp.status = 200 <=> th[t].resp.updated_routes >= 1)

\* an orlonger update has been answered with two routes, and mirror and
\* trie both show the new metric on two rows
C36_Witness ==
  \E t \in Threads :
    /\ th[t].pc = "done" /\ th[t].op \in {"update", "update_match"}
    /\ th[t].resp.updated_routes = 2
    /\ Cardinality({ i \in DOMAIN df : df[i].metric # mxmetric }) = 2
    /\ Cardinality({ i \in DOMAIN get_all_routes :
                       get_all_routes[i].metric # mxmetric }) = 2
\* the module state of worker p
StoreOf(p) == IF p = running THEN ModuleState ELSE parked[p]

\* what a lookup of the address answers from the tries of module state m
ExpectedAt(m, a) ==
  LET result == lookup_routes(IF a.v = 4 THEN m.ipv4_root ELSE m.ipv6_root,
                              a.addr, max_bits(a.v))
  IN  IF result = << >>
        THEN HTTPException(404)
        ELSE RouteResponse(best_route(result).prefix, best_route(result).next_hop)

\* C37: a lookup that starts after a successful update has returned answers
\* with the best route of the store that update wrote, whichever worker
\* process served the update and whichever serves the lookup.
C37_UpdateSeenByEveryWorker ==
  \A t \in Threads :
    (Answered(t, "get_nh") /\ th[t].quiet) =>
      th[t].resp = ExpectedAt(StoreOf(updater), th[t].ip_str)

\* a handler that holds no request, or has answered one, or waits for the
\* lock does not own it
Released(t) ==
  th[t].pc \in {"idle", "done", "l_lock", "u_lock"} => df_lock # t

Pending(t) == th[t].pc \notin {"idle", "done"}

Once(seq) == \A i, j \in DOMAIN seq : seq[i] = seq[j] => i = j

\* the routes attached at the nodes, in the order of the nodes
RECURSIVE Gather(_, _)
Gather(root, nodes) ==
  IF nodes = << >> THEN << >> ELSE root[Head(nodes)] \o Gather(root, Tail(nodes))

\* the nodes of a tree are finitely many, none deeper than the address is
\* long, each but the root hanging under a node of the tree
FiniteTree(version) ==
  LET root == root_of(version)
  IN  /\ IsFiniteSet(DOMAIN root)
      /\ \A node \in DOMAIN root :
           /\ Len(node) <= max_bits(version)
           /\ node # << >> => SubSeq(node, 1, Len(node) - 1) \in DOMAIN root

\* C39: the trees are finite and acyclic; a lookup is at no more nodes than
\* the address has bits, plus the root, and at none twice; the navigation
\* of update_metric runs at most prefix_len iterations; the orlonger walk
\* goes through every node of the subtree under the prefix exactly once.
\* What the calls return is what those nodes hold.
C39_WalksBounded ==
  /\ \A version \in Versions : FiniteTree(version)
  /\ ret.op = "lookup" =>
       LET a == ret.ip_address
           nodes == lookup_nodes(old_root(a.v), a.addr, max_bits(a.v))
       IN  /\ Len(nodes) <= max_bits(a.v) + 1
           /\ Once(nodes)
           /\ ret.result = Gather(old_root(a.v), nodes)
  /\ (ret.op = "update_metric" /\ ret.error = "none") =>
       LET network == ip_network(ret.prefix)
           root == old_root(network.version)
           path == PathBits(network.network_address, network.prefixlen,
                            max_bits(network.version))
           walk == update_subtree_nodes(root, path)
       IN  /\ navigate_steps(root, path, 0, << >>) <= network.prefixlen
           /\ Once(walk)
           /\ Range(walk) = {node \in DOMAIN root : IsPrefixOf(path, node)}
           /\ ret.match_type = "orlonger" =>
                 LET Hop(r) == r.next_hop = ret.next_hop
                 IN  ret.count = Len(SelectSeq(Gather(root, walk), Hop))

\* an orlonger update below the root has walked a subtree of three nodes
C39_Witness ==
  /\ ret.op = "update_metric" /\ ret.error = "none"
  /\ ret.match_type = "orlonger" /\ ret.count = 2
  /\ LET network == ip_network(ret.prefix)
         path == PathBits(network.network_address, network.prefixlen,
                          max_bits(network.version))
     IN  /\ network.prefixlen >= 1
         /\ Len(update_subtree_nodes(old_root(network.version), path)) >= 3

====
